---- MODULE Spec2Model ----
(***************************************************************************)
(* Model of the orgpressor interaction core: the hierarchy validator       *)
(* (utils/hierarchy.ts), the subtree capture / rigid move (utils/subtree.ts)*)
(* and the drag state machine (hooks/useNodeDrag.ts).                       *)
(*                                                                         *)
(* Coordinates are fixed-point numbers, two units per pixel (see Px), so   *)
(* that displacement * RUBBER_BAND_FACTOR (0.15 = 15/100) is exact for      *)
(* every displacement that is a multiple of 10 px.                         *)
(***************************************************************************)
EXTENDS Integers, Sequences, FiniteSets, TLC

VARIABLES
    vEdges,      \* validator: the HierarchyEdge[] handed to validateNoCycles
    vResult,     \* validator: "pending" | "ok" | "CycleDetected"
    pos,         \* network.getPositions(): node id -> [x, y] (canvas, fixed point)
    isRoot,      \* nodesDataSet: node id -> the node's isRoot flag
    color,       \* nodesDataSet: node id -> "default" | "highlight"
    edges,       \* edgesDataSet: sequence of <<from, to>> in insertion order
    dragState,   \* the dragState ref: Null or the session record
    topBarLit,   \* host: the last value handed to onTopBarHighlight
    notified,    \* host: onHierarchyChange calls since the last drag-start
    mutations,   \* history: structural changes seen since the last drag-start
    gestures,    \* history: drag-starts accepted so far
    detached,    \* history: the edge removed since the last drag-start, if any
    startPos,    \* history: the positions when the gesture in progress
                 \* started; between gestures, the positions there are
    ev,          \* history: the last event delivered and what became of it
    view,        \* network.getViewPosition() and getScale(): [x, y, scale]
    viewRefs,    \* useViewConstraints: isDragging, lastX, lastY, intendedScale
                 \* and the resize observer's previousWidth / previousHeight
    container,   \* the container's clientWidth / clientHeight
    viewHost,    \* host: whether getViewBounds gives a minY, the last value
                 \* of onScaleChange, and isInitialized of positionView
    viewHist,    \* history: the last view event, the number of events and
                 \* of wheel events, the scale the last wheel event set
    gsNodes,     \* graph state: the items of the nodesDataSet handed over
    gsEdges,     \* graph state: the items of the edgesDataSet handed over
    gsResult,    \* graph state: Null or the payload extractGraphState made
    grid,        \* calculateFreeNodesGrid: Null, or the node count handed
                 \* over and the grid returned
    walk         \* a descendant walk in progress: Null, or its edges,
                 \* pending ids, visited ids, output and status

valVars == <<vEdges, vResult>>
dragVars == <<pos, isRoot, color, edges, dragState, topBarLit, notified,
              mutations, gestures, detached, startPos, ev>>
viewVars == <<view, viewRefs, container, viewHost, viewHist>>
stateVars == <<gsNodes, gsEdges, gsResult>>
calcVars == <<grid, walk>>
vars == <<vEdges, vResult, pos, isRoot, color, edges, dragState, topBarLit,
          notified, mutations, gestures, detached, startPos, ev, view,
          viewRefs, container, viewHost, viewHist, gsNodes, gsEdges, gsResult,
          grid, walk>>

(***************************************************************************)
(* Bounds of the validator's inputs.                                       *)
(***************************************************************************)
NumValNodes == 3
MaxEdges == 3

ValNodes == 1..NumValNodes

(***************************************************************************)
(* validateNoCycles                                                        *)
(***************************************************************************)

\* hierarchy.ts 19: the self-loop test made on every edge while the adjacency
\* list is built; the first edge with from == to throws.
HasSelfLoopEdge(es) == \E i \in 1..Len(es) : es[i][1] = es[i][2]

RECURSIVE AdjacencyOf(_, _)
\* hierarchy.ts 28-31: adjacency.get(n), the targets of n's edges in edge order.
AdjacencyOf(es, n) ==
    IF es = <<>> THEN <<>>
    ELSE LET rest == AdjacencyOf(Tail(es), n)
         IN  IF Head(es)[1] = n THEN <<Head(es)[2]>> \o rest ELSE rest

RECURSIVE AllNodesOf(_, _)
\* hierarchy.ts 25-26: allNodes, a Set iterated in insertion order.
AllNodesOf(es, acc) ==
    IF es = <<>> THEN acc
    ELSE LET a == Head(es)[1]
             b == Head(es)[2]
             InSeq(s, x) == \E i \in 1..Len(s) : s[i] = x
             acc1 == IF InSeq(acc, a) THEN acc ELSE Append(acc, a)
             acc2 == IF InSeq(acc1, b) THEN acc1 ELSE Append(acc1, b)
         IN  AllNodesOf(Tail(es), acc2)

\* A faulty back-edge test: any already-seen neighbour counts as a cycle.
IsBackEdgeSeen(neighborState) == neighborState # 0

\* hierarchy.ts 46: a neighbour in state 1 (visiting) is a back edge.
IsBackEdge(neighborState) == neighborState = 1

RECURSIVE dfs(_, _, _)
RECURSIVE dfsNeighbors(_, _, _, _)
\* hierarchy.ts 38-64: dfs(nodeId); st is the `state` map (0 unvisited,
\* 1 visiting, 2 visited). Returns whether it threw and the map it left.
dfs(es, nodeId, st) == dfsNeighbors(es, nodeId, 1, [st EXCEPT ![nodeId] = 1])

\* hierarchy.ts 43-63: the loop over the neighbours, from the i-th on.
dfsNeighbors(es, nodeId, i, st) ==
    LET neighbors == AdjacencyOf(es, nodeId)
    IN  IF i > Len(neighbors)
        THEN [threw |-> FALSE, st |-> [st EXCEPT ![nodeId] = 2]]
        ELSE LET neighbor == neighbors[i]
             IN  IF IsBackEdge(st[neighbor])
                 THEN [threw |-> TRUE, st |-> st]
                 ELSE IF st[neighbor] = 0
                      THEN LET r == dfs(es, neighbor, st)
                           IN  IF r.threw THEN r
                               ELSE dfsNeighbors(es, nodeId, i + 1, r.st)
                      ELSE dfsNeighbors(es, nodeId, i + 1, st)

RECURSIVE dfsFromEach(_, _, _, _)
\* hierarchy.ts 67-71: restart the traversal from every unvisited node.
dfsFromEach(es, order, i, st) ==
    IF i > Len(order) THEN FALSE
    ELSE IF st[order[i]] = 0
         THEN LET r == dfs(es, order[i], st)
              IN  IF r.threw THEN TRUE ELSE dfsFromEach(es, order, i + 1, r.st)
         ELSE dfsFromEach(es, order, i + 1, st)

\* hierarchy.ts 12-72
validateNoCycles(es) ==
    IF HasSelfLoopEdge(es) THEN "CycleDetected"
    ELSE IF dfsFromEach(es, AllNodesOf(es, <<>>), 1, [n \in ValNodes |-> 0])
         THEN "CycleDetected"
         ELSE "ok"

(***************************************************************************)
(* The validator's specification: the host builds an edge list, then the   *)
(* list is validated once.                                                 *)
(***************************************************************************)
ValInit ==
    /\ vEdges = <<>>
    /\ vResult = "pending"

\* The host supplies one more edge of its edge list.
ValAddEdge ==
    /\ vResult = "pending"
    /\ Len(vEdges) < MaxEdges
    /\ \E a \in ValNodes, b \in ValNodes : vEdges' = Append(vEdges, <<a, b>>)
    /\ UNCHANGED vResult
    /\ UNCHANGED <<dragVars, viewVars, stateVars, calcVars>>

\* validateNoCycles(edges) is called on the list.
ValRun ==
    /\ vResult = "pending"
    /\ vResult' = validateNoCycles(vEdges)
    /\ UNCHANGED vEdges
    /\ UNCHANGED <<dragVars, viewVars, stateVars, calcVars>>

(***************************************************************************)
(* The drag state machine's world: the nodes of the spec's scenario        *)
(* (1 -> 2, 1 -> 3, node 4 free), the ids an event may carry, the pointer  *)
(* positions a drag may report, and the configuration.                     *)
(***************************************************************************)
MaxGestures == 1

\* Fixed point: canvas coordinates hold two units per pixel.
Px(n) == 2 * n

Nodes == 1..4
\* An id no node of nodesDataSet has (a stale event).
UnknownId == 5
\* config: the id of the top bar's own node, which is never draggable.
TOP_BAR_NODE_ID == 6
EventIds == Nodes \cup {UnknownId, TOP_BAR_NODE_ID}
\* params.nodes: the background (no node) or one node.
Selections == {<<>>} \cup {<<n>> : n \in EventIds}

RUBBER_BAND_NUM == 15
RUBBER_BAND_DEN == 100
SNAP_OUT_THRESHOLD == 150
TOP_BAR_HEIGHT == 60
ROOT_Y_IN_TOP_BAR == 30
LEVEL_SEPARATION == 100
NODE_SPACING == 150
MAX_OFFSET == 20
\* The rendering collaborator's box of a node: its centre +- these.
BoxHalfWidth == 50
BoxHalfHeight == 25

\* null, for dragState, pointerOffset and the pointer of an event without one.
Null == [null |-> TRUE]
\* null, for highlightedNodeId.
NoNode == 0

Pt(px, py) == [x |-> Px(px), y |-> Px(py)]

\* params.pointer.canvas of the drag-moves: on node 2, off its centre, at and
\* one pixel past the threshold below it, on node 3, on node 1, in the root
\* band beside the roots, on node 4, on empty canvas, and just below node 1
\* in the lower part of the root band.
Pointers ==
    { Pt(-75, 130), Pt(-65, 140), Pt(-75, 280), Pt(-75, 281), Pt(75, 130),
      Pt(0, 30), Pt(200, 30), Pt(0, 330), Pt(200, 330), Pt(-50, 82) }

Abs(n) == IF n < 0 THEN 0 - n ELSE n

(***************************************************************************)
(* utils/hierarchy.ts over the edgesDataSet (a sequence of <<from, to>>).  *)
(***************************************************************************)
\* hierarchy.ts 200-208: the first edge whose `to` is the node, or null.
getParentEdge(nodeId, es) ==
    LET found == SelectSeq(es, LAMBDA e : e[2] = nodeId)
    IN  IF Len(found) > 0 THEN <<found[1]>> ELSE <<>>

\* hierarchy.ts 105-118
isNodeFree(nodeId, roots, es) ==
    IF roots[nodeId] THEN FALSE
    ELSE Len(SelectSeq(es, LAMBDA e : e[2] = nodeId)) = 0

\* hierarchy.ts 146-153
getChildNodeIds(parentId, es) ==
    LET found == SelectSeq(es, LAMBDA e : e[1] = parentId)
    IN  [i \in 1..Len(found) |-> found[i][2]]

RECURSIVE SeqToOrder(_, _)
\* A JavaScript Set filled from a sequence: first occurrences, in order.
SeqToOrder(s, acc) ==
    IF s = <<>> THEN acc
    ELSE IF \E i \in 1..Len(acc) : acc[i] = Head(s)
         THEN SeqToOrder(Tail(s), acc)
         ELSE SeqToOrder(Tail(s), Append(acc, Head(s)))

RECURSIVE Flatten(_)
\* The ids from, to of each edge in turn.
Flatten(es) ==
    IF es = <<>> THEN <<>> ELSE <<Head(es)[1], Head(es)[2]>> \o Flatten(Tail(es))

RECURSIVE RootFlagged(_, _)
\* nodesDataSet.get().filter(n => n.isRoot), in the dataset's (id) order.
RootFlagged(roots, n) ==
    IF n > Cardinality(Nodes) THEN <<>>
    ELSE IF roots[n] THEN <<n>> \o RootFlagged(roots, n + 1)
         ELSE RootFlagged(roots, n + 1)

\* A faulty candidate list that holds every node, in the hierarchy or not.
getSnappedNodeIdsAll(roots, es) ==
    SeqToOrder(Flatten(es) \o [n \in 1..Cardinality(Nodes) |-> n], <<>>)

\* hierarchy.ts 78-98: the in-hierarchy nodes in the Set's iteration order:
\* the ends of every edge, then the flagged roots; never the top bar node.
getSnappedNodeIds(roots, es) ==
    LET all == SeqToOrder(Flatten(es) \o RootFlagged(roots, 1), <<>>)
    IN  SelectSeq(all, LAMBDA n : n # TOP_BAR_NODE_ID)

\* hierarchy.ts 123-141: connected nodes that are nobody's child.
getRootNodeIds(es) ==
    {e[1] : e \in {es[i] : i \in 1..Len(es)}}
        \ {e[2] : e \in {es[i] : i \in 1..Len(es)}}

RECURSIVE bfs(_, _, _)
\* hierarchy.ts 179-192: the queue loop of getAllDescendantIds. The result is
\* <<threw, descendants>>: a child already visited throws.
bfs(queue, visited, es) ==
    IF queue = <<>> THEN [threw |-> FALSE, ids |-> <<>>]
    ELSE LET children == getChildNodeIds(Head(queue), es)
             dup == \/ \E i \in 1..Len(children) : children[i] \in visited
                    \/ \E i, j \in 1..Len(children) :
                           i # j /\ children[i] = children[j]
         IN  IF dup THEN [threw |-> TRUE, ids |-> <<>>]
             ELSE LET rest == bfs(Tail(queue) \o children,
                                  visited \cup {children[i] : i \in 1..Len(children)},
                                  es)
                  IN  [threw |-> rest.threw, ids |-> children \o rest.ids]

\* hierarchy.ts 171-195
getAllDescendantIds(nodeId, es) == bfs(<<nodeId>>, {nodeId}, es)

(***************************************************************************)
(* utils/subtree.ts and utils/positions.ts                                 *)
(***************************************************************************)
SeqRange(s) == {s[i] : i \in 1..Len(s)}

\* subtree.ts 12-39: the SubtreeContext of nodeId at the positions p.
captureSubtree(p, es, nodeId) ==
    LET descendantIds == getAllDescendantIds(nodeId, es).ids
    IN  [rootId |-> nodeId,
         descendantIds |-> descendantIds,
         relativePositions |->
             [id \in SeqRange(descendantIds) |->
                 [dx |-> p[id].x - p[nodeId].x, dy |-> p[id].y - p[nodeId].y]]]

\* subtree.ts 109-111
getSubtreeNodeIds(subtree) == {subtree.rootId} \cup SeqRange(subtree.descendantIds)

\* A faulty rigid move: the descendants stay where they are.
moveRootOnly(p, subtree, newX, newY) ==
    [p EXCEPT ![subtree.rootId] = [x |-> newX, y |-> newY]]

\* subtree.ts 51-89 applied by nodesDataSet.update: the positions p with the
\* root at (newX, newY) and every descendant at the root plus its offset.
createSubtreeMoveUpdates(p, subtree, newX, newY) ==
    [id \in DOMAIN p |->
        IF id = subtree.rootId THEN [x |-> newX, y |-> newY]
        ELSE IF id \in SeqRange(subtree.descendantIds)
             THEN [x |-> newX + subtree.relativePositions[id].dx,
                   y |-> newY + subtree.relativePositions[id].dy]
             ELSE p[id]]

\* positions.ts 37-52 applied by nodesDataSet.update: every node outside
\* excludeIds back at its captured position.
createPositionUpdates(p, captured, excludeIds) ==
    [id \in DOMAIN p |-> IF id \in excludeIds THEN p[id] ELSE captured[id]]

RECURSIVE MaxX(_, _, _)
MaxX(ids, p, best) ==
    IF ids = <<>> THEN best
    ELSE MaxX(Tail(ids), p,
              IF best = Null \/ p[Head(ids)].x > best.x
              THEN [x |-> p[Head(ids)].x] ELSE best)

\* A faulty search that takes the first child's x for the rightmost.
findFirstX(ids, p) == IF ids = <<>> THEN 0 ELSE p[ids[1]].x

\* positions.ts 20-32
findRightmostX(ids, p) ==
    LET best == MaxX(ids, p, Null) IN IF best = Null THEN 0 ELSE best.x

\* network.getBoundingBox(id), the collaborator's box around the node.
getBoundingBox(p, id) ==
    [top |-> p[id].y - Px(BoxHalfHeight), bottom |-> p[id].y + Px(BoxHalfHeight),
     left |-> p[id].x - Px(BoxHalfWidth), right |-> p[id].x + Px(BoxHalfWidth)]

\* positions.ts 57-62
boxesOverlap(a, b) ==
    ~(a.right < b.left \/ a.left > b.right \/ a.bottom < b.top \/ a.top > b.bottom)

\* utils/network domToCanvasY with the view at the origin and scale 1.
domToCanvasY(domY) == Px(domY)

\* utils/network findRootNodesMinY: the least y among the hierarchy's roots
\* and the flagged roots; <<>> when there is none (undefined).
findRootNodesMinY(p, roots, es) ==
    LET ids == getRootNodeIds(es) \cup {n \in Nodes : roots[n]}
    IN  IF ids = {} THEN <<>>
        ELSE <<CHOOSE y \in {p[n].y : n \in ids} : \A n \in ids : y <= p[n].y>>

(***************************************************************************)
(* hooks/useNodeDrag.ts. A handler maps the world it finds (the datasets,  *)
(* the network's positions, the dragState ref and the host's callbacks'    *)
(* effects) to the world it leaves.                                        *)
(***************************************************************************)
World ==
    [pos |-> pos, isRoot |-> isRoot, color |-> color, edges |-> edges,
     dragState |-> dragState, topBarLit |-> topBarLit, notified |-> notified]

\* useNodeDrag.ts 45-58: setNodeHighlight / resetNodeHighlight.
setNodeHighlight(colors, nodeId, c) ==
    IF nodeId \in DOMAIN colors THEN [colors EXCEPT ![nodeId] = c] ELSE colors

\* A faulty snap-back that restores the horizontal position as well.
handleSnapBackToStart(w, currentX) ==
    [w EXCEPT !.pos = createSubtreeMoveUpdates(w.pos, w.dragState.subtree,
                                               w.dragState.originalX,
                                               w.dragState.originalY)]

\* A faulty snap-back that also reports a hierarchy change.
handleSnapBackNotifying(w, currentX) ==
    [w EXCEPT !.pos = [w.pos EXCEPT ![w.dragState.subtree.rootId] =
                          [x |-> currentX, y |-> w.dragState.originalY]],
              !.notified = w.notified + 1]

\* useNodeDrag.ts 62-91: vertical position restored, horizontal kept.
handleSnapBack(w, currentX) ==
    LET ds == w.dragState
    IN  [w EXCEPT !.pos =
            [id \in DOMAIN w.pos |->
                IF id = ds.subtree.rootId
                THEN [x |-> currentX, y |-> ds.originalY]
                ELSE IF id \in SeqRange(ds.subtree.descendantIds)
                     THEN [x |-> ds.originalX
                                 + ds.subtree.relativePositions[id].dx
                                 + (currentX - ds.originalX),
                           y |-> ds.originalY
                                 + ds.subtree.relativePositions[id].dy]
                     ELSE w.pos[id]]]

\* A faulty create-root that flags the node where it was dropped.
handleCreateRootInPlace(w) ==
    [w EXCEPT !.isRoot = [w.isRoot EXCEPT ![w.dragState.subtree.rootId] = TRUE]]

\* A faulty create-root that moves the subtree and forgets the flag.
handleCreateRootUnflagged(w) ==
    LET subtree == w.dragState.subtree
        existingRoots == RootFlagged(w.isRoot, 1)
        rootY == IF Len(existingRoots) > 0
                 THEN w.pos[existingRoots[1]].y
                 ELSE domToCanvasY(TOP_BAR_HEIGHT \div 2)
    IN  [w EXCEPT
            !.pos = createSubtreeMoveUpdates(w.pos, subtree,
                                             w.pos[subtree.rootId].x, rootY)]

\* useNodeDrag.ts 93-127
handleCreateRoot(w) ==
    LET subtree == w.dragState.subtree
        positions == w.pos
        existingRoots == RootFlagged(w.isRoot, 1)
        newRootX == positions[subtree.rootId].x
        rootY == IF Len(existingRoots) > 0
                 THEN positions[existingRoots[1]].y
                 ELSE domToCanvasY(TOP_BAR_HEIGHT \div 2)
    IN  [w EXCEPT
            !.pos = createSubtreeMoveUpdates(w.pos, subtree, newRootX, rootY),
            !.isRoot = [w.isRoot EXCEPT ![subtree.rootId] = TRUE]]

\* useNodeDrag.ts 129-175
handleSnapToParent(w, parentId) ==
    LET subtree == w.dragState.subtree
        positions == w.pos
        parentPos == positions[parentId]
        existingChildIds == getChildNodeIds(parentId, w.edges)
        newChildX == IF Len(existingChildIds) > 0
                     THEN findRightmostX(existingChildIds, positions)
                          + Px(NODE_SPACING)
                     ELSE parentPos.x
        newNodeY == parentPos.y + Px(LEVEL_SEPARATION)
        restored == createPositionUpdates(w.pos, positions,
                                          getSubtreeNodeIds(subtree))
    IN  [w EXCEPT
            !.edges = Append(w.edges, <<parentId, subtree.rootId>>),
            !.pos = createSubtreeMoveUpdates(restored, subtree, newChildX, newNodeY)]

\* useNodeDrag.ts 191-211. positions[nodeId] is undefined for an id the
\* network does not hold, and reading its x throws.
handleDragStart(w, nodes) ==
    IF Len(nodes) # 1 THEN [w |-> w, outcome |-> "ignored"]
    ELSE LET nodeId == nodes[1]
         IN  IF nodeId = TOP_BAR_NODE_ID THEN [w |-> w, outcome |-> "ignored"]
             ELSE IF nodeId \notin DOMAIN w.pos
                  THEN [w |-> w, outcome |-> "threw"]
                  ELSE [w |-> [w EXCEPT !.dragState =
                                  [originalX |-> w.pos[nodeId].x,
                                   originalY |-> w.pos[nodeId].y,
                                   snappedOut |-> isNodeFree(nodeId, w.isRoot, w.edges),
                                   highlightedNodeId |-> NoNode,
                                   isOverTopBar |-> FALSE,
                                   subtree |-> captureSubtree(w.pos, w.edges, nodeId),
                                   pointerOffset |-> Null]],
                        outcome |-> "handled"]

\* useNodeDrag.ts 226-240: the first drag-move of a gesture records the
\* pointer's offset from the node's centre, or none when it is too large.
calibrate(w, nodeId, pointer) ==
    IF w.dragState.pointerOffset # Null THEN w.dragState.pointerOffset
    ELSE LET dx == pointer.x - w.pos[nodeId].x
             dy == pointer.y - w.pos[nodeId].y
         IN  IF Abs(dx) > Px(MAX_OFFSET) \/ Abs(dy) > Px(MAX_OFFSET)
             THEN [dx |-> 0, dy |-> 0]
             ELSE [dx |-> dx, dy |-> dy]

RECURSIVE firstOverlapAny(_, _, _, _)
\* A faulty target search that does not skip the dragged subtree.
firstOverlapAny(snappedIds, subtreeIds, draggedBox, p) ==
    IF snappedIds = <<>> THEN NoNode
    ELSE IF boxesOverlap(draggedBox, getBoundingBox(p, Head(snappedIds)))
         THEN Head(snappedIds)
         ELSE firstOverlapAny(Tail(snappedIds), subtreeIds, draggedBox, p)

RECURSIVE firstOverlap(_, _, _, _)
\* useNodeDrag.ts 275-284: the first in-hierarchy node outside the dragged
\* subtree whose box overlaps the dragged node's box, or null.
firstOverlap(snappedIds, subtreeIds, draggedBox, p) ==
    IF snappedIds = <<>> THEN NoNode
    ELSE IF Head(snappedIds) \notin subtreeIds
            /\ boxesOverlap(draggedBox, getBoundingBox(p, Head(snappedIds)))
         THEN Head(snappedIds)
         ELSE firstOverlap(Tail(snappedIds), subtreeIds, draggedBox, p)

\* A faulty band test that looks at the node's centre.
overTopBarByCentre(draggedBox, rootMinY) ==
    (draggedBox.top + draggedBox.bottom) \div 2
        < rootMinY + Px(TOP_BAR_HEIGHT - ROOT_Y_IN_TOP_BAR)

\* useNodeDrag.ts 307-310: the dragged box's top edge is above the band's
\* lower boundary.
overTopBar(draggedBox, rootMinY) ==
    LET nodeTopEdgeY == draggedBox.top
        topBarBottom == rootMinY + Px(TOP_BAR_HEIGHT - ROOT_Y_IN_TOP_BAR)
    IN  nodeTopEdgeY < topBarBottom

\* useNodeDrag.ts 249-316; w.dragState.pointerOffset is already set.
handleFreeDragging(w, nodeId, pointer) ==
    LET ds == w.dragState
        nodeX == pointer.x - ds.pointerOffset.dx
        nodeY == pointer.y - ds.pointerOffset.dy
        moved == createSubtreeMoveUpdates(w.pos, ds.subtree, nodeX, nodeY)
        draggedBox == getBoundingBox(moved, nodeId)
        newHighlightedId ==
            firstOverlap(getSnappedNodeIds(w.isRoot, w.edges),
                         getSubtreeNodeIds(ds.subtree), draggedBox, moved)
        prevHighlightedId == ds.highlightedNodeId
        c1 == IF prevHighlightedId # NoNode /\ prevHighlightedId # newHighlightedId
              THEN setNodeHighlight(w.color, prevHighlightedId, "default")
              ELSE w.color
        c2 == IF newHighlightedId # NoNode /\ newHighlightedId # prevHighlightedId
              THEN setNodeHighlight(c1, newHighlightedId, "highlight")
              ELSE c1
        minY == findRootNodesMinY(moved, w.isRoot, w.edges)
        rootMinY == IF minY = <<>> THEN 0 ELSE minY[1]
        isOverTopBar == overTopBar(draggedBox, rootMinY)
    IN  IF newHighlightedId # NoNode
        THEN [w EXCEPT !.pos = moved, !.color = c2,
                       !.dragState.highlightedNodeId = newHighlightedId,
                       !.dragState.isOverTopBar = FALSE,
                       !.topBarLit = IF ds.isOverTopBar THEN FALSE ELSE w.topBarLit]
        ELSE [w EXCEPT !.pos = moved, !.color = c2,
                       !.dragState.highlightedNodeId = newHighlightedId,
                       !.dragState.isOverTopBar = isOverTopBar,
                       !.topBarLit = IF isOverTopBar # ds.isOverTopBar
                                     THEN isOverTopBar ELSE w.topBarLit]

\* A faulty rubber band without damping.
rubberBandYUndamped(originalY, yOffset) == originalY + yOffset

\* useNodeDrag.ts 372: originalY + yOffset * RUBBER_BAND_FACTOR.
rubberBandY(originalY, yOffset) ==
    originalY + (yOffset * RUBBER_BAND_NUM) \div RUBBER_BAND_DEN

\* A faulty threshold test that snaps out at the threshold itself.
pastThresholdInclusive(distance) == distance >= Px(SNAP_OUT_THRESHOLD)

\* useNodeDrag.ts 332: the test that switches from rubber band to snap-out.
pastThreshold(distance) == distance > Px(SNAP_OUT_THRESHOLD)

\* A faulty detachment that removes every edge connected to the node.
removeConnectedEdges(nodeId, es) ==
    SelectSeq(es, LAMBDA e : e[1] # nodeId /\ e[2] # nodeId)

\* useNodeDrag.ts 337-340: the edges left once the parent edge is removed.
removeParentEdge(nodeId, es) ==
    LET parentEdge == getParentEdge(nodeId, es)
    IN  IF parentEdge # <<>>
        THEN SelectSeq(es, LAMBDA e : e # parentEdge[1])
        ELSE es

\* A faulty snap-out that does not report the hierarchy change.
snapOutSilent(w, nodeId, nodeX, nodeY) ==
    [w EXCEPT
        !.edges = removeParentEdge(nodeId, w.edges),
        !.isRoot = [w.isRoot EXCEPT ![nodeId] = FALSE],
        !.dragState.snappedOut = TRUE,
        !.pos = createSubtreeMoveUpdates(w.pos, w.dragState.subtree, nodeX, nodeY)]

\* A faulty snap-out that does not latch the snapped-out state.
snapOutUnlatched(w, nodeId, nodeX, nodeY) ==
    [w EXCEPT
        !.edges = removeParentEdge(nodeId, w.edges),
        !.isRoot = [w.isRoot EXCEPT ![nodeId] = FALSE],
        !.pos = createSubtreeMoveUpdates(w.pos, w.dragState.subtree, nodeX, nodeY),
        !.notified = w.notified + 1]

\* useNodeDrag.ts 332-369: the snap-out branch.
snapOut(w, nodeId, nodeX, nodeY) ==
    LET ds == w.dragState
        positions == w.pos
        restored == createPositionUpdates(w.pos, positions,
                                          getSubtreeNodeIds(ds.subtree))
    IN  [w EXCEPT
            !.edges = removeParentEdge(nodeId, w.edges),
            !.isRoot = IF w.isRoot[nodeId]
                       THEN [w.isRoot EXCEPT ![nodeId] = FALSE] ELSE w.isRoot,
            !.dragState.snappedOut = TRUE,
            !.pos = createSubtreeMoveUpdates(restored, ds.subtree, nodeX, nodeY),
            !.notified = w.notified + 1]

\* useNodeDrag.ts 370-394: the rubber-band branch.
rubberBand(w, nodeId, nodeX, yOffset) ==
    LET ds == w.dragState
        y == rubberBandY(ds.originalY, yOffset)
        xOffset == nodeX - ds.originalX
    IN  [w EXCEPT !.pos =
            [id \in DOMAIN w.pos |->
                IF id = ds.subtree.rootId THEN [x |-> nodeX, y |-> y]
                ELSE IF id \in SeqRange(ds.subtree.descendantIds)
                     THEN [x |-> ds.originalX + xOffset
                                 + ds.subtree.relativePositions[id].dx,
                           y |-> y + ds.subtree.relativePositions[id].dy]
                     ELSE w.pos[id]]]

\* useNodeDrag.ts 318-395; w.dragState.pointerOffset is already set.
handleConnectedDragging(w, nodeId, pointer, originalY) ==
    LET nodeX == pointer.x - w.dragState.pointerOffset.dx
        nodeY == pointer.y - w.dragState.pointerOffset.dy
        yOffset == nodeY - originalY
        distance == Abs(yOffset)
    IN  IF pastThreshold(distance)
        THEN snapOut(w, nodeId, nodeX, nodeY)
        ELSE rubberBand(w, nodeId, nodeX, yOffset)

\* A faulty session test that does not compare the node id.
notForSessionAnyNode(w, nodes) ==
    IF w.dragState = Null THEN TRUE ELSE Len(nodes) # 1

\* useNodeDrag.ts 217-220 and 398-401: the event is not for the session.
notForSession(w, nodes) ==
    \/ w.dragState = Null
    \/ Len(nodes) # 1
    \/ nodes[1] # w.dragState.subtree.rootId

\* useNodeDrag.ts 213-247
handleDragging(w, nodes, pointer) ==
    IF notForSession(w, nodes) THEN [w |-> w, outcome |-> "ignored"]
    ELSE LET nodeId == nodes[1]
             snappedOut == w.dragState.snappedOut
             w1 == [w EXCEPT !.dragState.pointerOffset =
                                calibrate(w, nodeId, pointer)]
         IN  [w |-> IF snappedOut
                    THEN handleFreeDragging(w1, nodeId, pointer)
                    ELSE handleConnectedDragging(w1, nodeId, pointer,
                                                 w.dragState.originalY),
              outcome |-> "handled"]

\* A faulty drag-end that keeps the session when the drop commits nothing.
handleDragEndKeepsIdleDrop(w, nodes) ==
    IF notForSession(w, nodes) THEN [w |-> w, outcome |-> "ignored"]
    ELSE LET nodeId == nodes[1]
             ds == w.dragState
             w1 == [w EXCEPT
                      !.topBarLit = IF ds.isOverTopBar THEN FALSE ELSE w.topBarLit,
                      !.color = IF ds.highlightedNodeId # NoNode
                                THEN setNodeHighlight(w.color, ds.highlightedNodeId,
                                                      "default")
                                ELSE w.color]
         IN  IF ~ds.snappedOut
             THEN [w |-> [handleSnapBack(w1, w1.pos[nodeId].x)
                             EXCEPT !.dragState = Null],
                   outcome |-> "handled"]
             ELSE IF ds.isOverTopBar
                  THEN [w |-> [handleCreateRoot(w1) EXCEPT
                                  !.notified = w1.notified + 1,
                                  !.dragState = Null],
                        outcome |-> "handled"]
                  ELSE IF ds.highlightedNodeId # NoNode
                       THEN [w |-> [handleSnapToParent(w1, ds.highlightedNodeId)
                                       EXCEPT !.notified = w1.notified + 1,
                                              !.dragState = Null],
                             outcome |-> "handled"]
                       ELSE [w |-> w1, outcome |-> "handled"]

\* useNodeDrag.ts 397-433
handleDragEnd(w, nodes) ==
    IF notForSession(w, nodes) THEN [w |-> w, outcome |-> "ignored"]
    ELSE LET nodeId == nodes[1]
             ds == w.dragState
             w1 == [w EXCEPT
                      !.topBarLit = IF ds.isOverTopBar THEN FALSE ELSE w.topBarLit,
                      !.color = IF ds.highlightedNodeId # NoNode
                                THEN setNodeHighlight(w.color, ds.highlightedNodeId,
                                                      "default")
                                ELSE w.color]
             w2 == IF ~ds.snappedOut
                   THEN handleSnapBack(w1, w1.pos[nodeId].x)
                   ELSE IF ds.isOverTopBar
                        THEN [handleCreateRoot(w1) EXCEPT
                                 !.notified = w1.notified + 1]
                        ELSE IF ds.highlightedNodeId # NoNode
                             THEN [handleSnapToParent(w1, ds.highlightedNodeId)
                                      EXCEPT !.notified = w1.notified + 1]
                             ELSE w1
         IN  [w |-> [w2 EXCEPT !.dragState = Null], outcome |-> "handled"]

(***************************************************************************)
(* The drag machine's specification: the rendering collaborator delivers   *)
(* dragStart, dragging and dragEnd events, one at a time.                  *)
(***************************************************************************)
DragInit ==
    /\ pos = [n \in Nodes |->
                CASE n = 1 -> Pt(0, 30)
                  [] n = 2 -> Pt(-75, 130)
                  [] n = 3 -> Pt(75, 130)
                  [] OTHER -> Pt(0, 330)]
    /\ isRoot = [n \in Nodes |-> n = 1]
    /\ color = [n \in Nodes |-> "default"]
    /\ edges = <<<<1, 2>>, <<1, 3>>>>
    /\ dragState = Null
    /\ topBarLit = FALSE
    /\ notified = 0
    /\ mutations = 0
    /\ gestures = 0
    /\ detached = <<>>
    /\ startPos = pos
    /\ ev = [kind |-> "none", outcome |-> "none", node |-> NoNode, pointer |-> Null]

\* History: the event just delivered. The node and the pointer are kept for
\* an event the handler acted on.
Delivered(kind, nodes, pointer, outcome) ==
    [kind |-> kind, outcome |-> outcome,
     node |-> IF outcome = "handled" THEN nodes[1] ELSE NoNode,
     pointer |-> IF outcome = "handled" THEN pointer ELSE Null]

\* The handler's world becomes the state.
Commit(w) ==
    /\ pos' = w.pos
    /\ isRoot' = w.isRoot
    /\ color' = w.color
    /\ edges' = w.edges
    /\ dragState' = w.dragState
    /\ topBarLit' = w.topBarLit

\* History: one more structural change when the edges or a root flag changed.
Observed == mutations + (IF edges' # edges \/ isRoot' # isRoot THEN 1 ELSE 0)

\* History: the edge this step removed, else the one remembered.
Removed ==
    LET gone == {edges[i] : i \in 1..Len(edges)} \ {edges'[i] : i \in 1..Len(edges')}
    IN  IF gone # {} THEN <<CHOOSE e \in gone : TRUE>> ELSE detached

\* The rubber-band position of this move is a fixed-point number.
Representable(w, nodes, pointer) ==
    IF notForSession(w, nodes) THEN TRUE
    ELSE IF w.dragState.snappedOut THEN TRUE
    ELSE LET yOffset == pointer.y - calibrate(w, nodes[1], pointer).dy
                        - w.dragState.originalY
         IN  IF pastThreshold(Abs(yOffset)) THEN TRUE
             ELSE (yOffset * RUBBER_BAND_NUM) % RUBBER_BAND_DEN = 0

\* network.on("dragStart", handleDragStart)
DragStartEv ==
    \E nodes \in Selections :
        LET r == handleDragStart(World, nodes)
            started == r.outcome = "handled"
        IN  /\ started => gestures < MaxGestures
            /\ Commit(r.w)
            /\ notified' = IF started THEN 0 ELSE notified
            /\ mutations' = IF started THEN 0 ELSE mutations
            /\ gestures' = IF started THEN gestures + 1 ELSE gestures
            /\ detached' = IF started THEN <<>> ELSE detached
            /\ startPos' = IF started THEN pos ELSE startPos
            /\ ev' = Delivered("dragStart", nodes, Null, r.outcome)
            /\ UNCHANGED <<valVars, viewVars, stateVars, calcVars>>

\* network.on("dragging", handleDragging). An event that is not for the
\* session is ignored whatever its pointer, so one pointer stands for all.
DragMoveEv ==
    \E nodes \in Selections :
        \E pointer \in IF notForSession(World, nodes)
                        THEN {CHOOSE p \in Pointers : TRUE} ELSE Pointers :
            LET r == handleDragging(World, nodes, pointer)
            IN  /\ Representable(World, nodes, pointer)
                /\ Commit(r.w)
                /\ notified' = r.w.notified
                /\ mutations' = Observed
                /\ detached' = Removed
                /\ ev' = Delivered("dragging", nodes, pointer, r.outcome)
                /\ UNCHANGED <<gestures, startPos, valVars, viewVars, stateVars, calcVars>>

\* network.on("dragEnd", handleDragEnd)
DragEndEv ==
    \E nodes \in Selections :
        LET r == handleDragEnd(World, nodes)
        IN  /\ Commit(r.w)
            /\ notified' = r.w.notified
            /\ mutations' = Observed
            /\ detached' = Removed
            /\ ev' = Delivered("dragEnd", nodes, Null, r.outcome)
            /\ startPos' = IF r.outcome = "handled" THEN r.w.pos ELSE startPos
            /\ UNCHANGED <<gestures, valVars, viewVars, stateVars, calcVars>>

\* The horizontal displacements the collaborator's layout engine may give a
\* node it re-lays out.
RelayoutShifts == {Px(-10), Px(10)}

\* config.ts 7-15: the collaborator lays the nodes out hierarchically, and may
\* do so again while a gesture is in progress. The dragged subtree is where
\* the handlers put it; every other node lands a shift away from where it
\* was when the gesture started.
RelayoutEv ==
    /\ dragState # Null
    /\ \E d \in RelayoutShifts :
           pos' = [n \in Nodes |->
                     IF n \in getSubtreeNodeIds(dragState.subtree) THEN pos[n]
                     ELSE [x |-> startPos[n].x + d, y |-> startPos[n].y]]
    /\ ev' = [kind |-> "relayout", outcome |-> "handled",
              node |-> NoNode, pointer |-> Null]
    /\ UNCHANGED <<isRoot, color, edges, dragState, topBarLit, notified,
                   mutations, gestures, detached, startPos, valVars, viewVars,
                   stateVars, calcVars>>

(***************************************************************************)
(* Graph notions the claims are stated with (independent of the DFS).      *)
(***************************************************************************)
EdgeSetOf(es) == {es[i] : i \in 1..Len(es)}

RECURSIVE ReachableIn(_, _, _)
\* Nodes reachable from the set `frontier` by one or more edges of E.
ReachableIn(E, frontier, seen) ==
    LET next == {e[2] : e \in {f \in E : f[1] \in frontier}} \ seen
    IN  IF next = {} THEN seen ELSE ReachableIn(E, next, seen \cup next)

Descendants(E, n) == ReachableIn(E, {n}, {})

HasDirectedCycle(E) == \E e \in E : e[1] \in Descendants(E, e[1])

IsForest(E) ==
    /\ ~HasDirectedCycle(E)
    /\ \A e \in E, f \in E : e[2] = f[2] => e = f

(***************************************************************************)
(* utils/layout.ts (LayoutCalculator, src/unnamed/part_005) and the         *)
(* useLayout hook that delegates to it (src/unnamed/part_015, from line    *)
(* 86). Positions are those of network.getPositions(), which reports every *)
(* node of the network.                                                    *)
(***************************************************************************)
\* Bound of the layout inputs: the levels vis.js may have put a node on.
LayoutLevels == 3

FREE_NODES_TOP_MARGIN == 150
FREE_NODES_SPACING == 120

\* nodesDataSet.get(): the nodes in the dataset's (id) order.
NodeSeq == [i \in 1..Cardinality(Nodes) |-> i]

RECURSIVE floorSqrt(_, _)
\* Math.floor(Math.sqrt(n)), counted up from r.
floorSqrt(n, r) == IF (r + 1) * (r + 1) > n THEN r ELSE floorSqrt(n, r + 1)

\* A faulty division that rounds down.
floorDiv(a, b) == a \div b

\* Math.ceil(a / b) for positive b.
ceilDiv(a, b) == (a + b - 1) \div b

RECURSIVE shrinkRows(_, _, _)
\* layout.ts 62-65: while (cols < rows && rows > 1) { rows--; cols = ... }
shrinkRows(nodeCount, rows, cols) ==
    IF cols < rows /\ rows > 1
    THEN shrinkRows(nodeCount, rows - 1, ceilDiv(nodeCount, rows - 1))
    ELSE [cols |-> cols, rows |-> rows]

\* layout.ts 54-71
calculateFreeNodesGrid(nodeCount) ==
    IF nodeCount = 0 THEN [cols |-> 0, rows |-> 0]
    ELSE LET rows == floorSqrt(nodeCount, 0)
             g == shrinkRows(nodeCount, rows, ceilDiv(nodeCount, rows))
         IN  [cols |-> IF g.cols < 1 THEN nodeCount ELSE g.cols,
              rows |-> IF g.rows < 1 THEN 1 ELSE g.rows]

\* Bound of the node counts handed to calculateFreeNodesGrid.
MaxGridNodes == 120

\* No calculation is in progress.
CalcInit == grid = Null /\ walk = Null

\* The calculator is asked for the grid of any number of free nodes.
GridInit ==
    /\ \E n \in 0..MaxGridNodes : grid = [nodeCount |-> n, result |-> Null]
    /\ walk = Null

\* layout.ts 232: calculateFreeNodesGrid(freeNodes.length) is called.
GridCalc ==
    /\ grid.result = Null
    /\ grid' = [grid EXCEPT !.result = calculateFreeNodesGrid(grid.nodeCount)]
    /\ UNCHANGED <<walk, valVars, dragVars, viewVars, stateVars>>

\* Bound of the edge lists handed to the descendant walks.
MaxWalkEdges == 3

\* The ids the edges of a walk are drawn from.
WalkIds == 1..3

\* Every edge list of at most MaxWalkEdges edges over WalkIds: self-loops,
\* repeated edges, shared children and cycles included.
WalkEdgeLists == UNION {[1..k -> WalkIds \X WalkIds] : k \in 0..MaxWalkEdges}

\* hierarchy.ts 175-177: getAllDescendantIds(nodeId, edgesDataSet) is entered
\* by captureSubtree (subtree.ts 17), for any edge list and any node.
CaptureInit ==
    /\ \E es \in WalkEdgeLists, nodeId \in WalkIds :
           walk = [alg |-> "capture", es |-> es, nodeId |-> nodeId,
                   queue |-> <<nodeId>>, visited |-> {nodeId},
                   descendants |-> <<>>, status |-> "running",
                   iterations |-> 0]
    /\ grid = Null

\* A faulty queue loop without the cycle guard.
bfsStepUnguarded(w) ==
    LET children == getChildNodeIds(Head(w.queue), w.es)
        queue == Tail(w.queue) \o children
    IN  [w EXCEPT !.queue = queue,
                  !.visited = @ \cup {children[i] : i \in 1..Len(children)},
                  !.descendants = @ \o children,
                  !.iterations = @ + 1,
                  !.status = IF queue = <<>> THEN "returned" ELSE "running"]

\* hierarchy.ts 179-194: one iteration of the queue loop of
\* getAllDescendantIds: shift the current id and visit its children in turn;
\* a child already visited throws; the loop ends when the queue is empty.
bfsStep(w) ==
    LET children == getChildNodeIds(Head(w.queue), w.es)
        dup == \/ \E i \in 1..Len(children) : children[i] \in w.visited
               \/ \E i, j \in 1..Len(children) :
                      i # j /\ children[i] = children[j]
        queue == Tail(w.queue) \o children
    IN  IF dup
        THEN [w EXCEPT !.iterations = @ + 1, !.status = "threw"]
        ELSE [w EXCEPT !.queue = queue,
                       !.visited = @ \cup {children[i] : i \in 1..Len(children)},
                       !.descendants = @ \o children,
                       !.iterations = @ + 1,
                       !.status = IF queue = <<>> THEN "returned" ELSE "running"]

\* hierarchy.ts 179: while (queue.length > 0), one iteration at a time.
CaptureStep ==
    /\ walk # Null /\ walk.alg = "capture"
    /\ walk.status = "running"
    /\ walk.iterations <= MaxWalkEdges + 1    \* keeps a runaway loop finite
    /\ walk' = bfsStep(walk)
    /\ UNCHANGED <<grid, valVars, dragVars, viewVars, stateVars>>

RECURSIVE stackWalk(_, _)
\* layout.ts 85-94: pop a node, append and push its children, until the
\* stack is empty.
stackWalk(stack, es) ==
    IF stack = <<>> THEN <<>>
    ELSE LET children == getChildNodeIds(stack[Len(stack)], es)
         IN  children \o stackWalk(SubSeq(stack, 1, Len(stack) - 1) \o children, es)

\* layout.ts 76-97: getAllDescendantIds of the calculator.
layoutDescendantIds(rootId, es) == stackWalk(<<rootId>>, es)

\* A faulty root detection: every node with an outgoing edge is a root.
layoutRootIdsAnyOutgoing(es) ==
    SeqToOrder([i \in 1..Len(es) |-> es[i][1]], <<>>)

\* layout.ts 102-119: getRootNodeIds of the calculator, in the Set's order:
\* the nodes with an outgoing edge and no incoming one.
layoutRootIds(es) ==
    SelectSeq(SeqToOrder([i \in 1..Len(es) |-> es[i][1]], <<>>),
              LAMBDA id : \A i \in 1..Len(es) : es[i][2] # id)

\* layout.ts 142-176: calculate is entered with any edge list and at most one
\* flagged node; the walks are made only when there are several roots.
LayoutWalkInit ==
    /\ \E es \in WalkEdgeLists, flagged \in WalkIds \cup {NoNode} :
           LET roots == [n \in Nodes |-> n = flagged]
               rootIds == SeqToOrder(layoutRootIds(es) \o RootFlagged(roots, 1), <<>>)
           IN  walk = [alg |-> "layout", es |-> es,
                       rootIds |-> IF Len(rootIds) > 1 THEN rootIds ELSE <<>>,
                       stack |-> <<>>, descendants |-> <<>>,
                       status |-> "running", iterations |-> 0]
    /\ grid = Null

\* layout.ts 85-94: one iteration of the stack loop of getAllDescendantIds:
\* pop a node, append and push each of its children.
stackStep(w) ==
    LET nodeId == w.stack[Len(w.stack)]
        children == getChildNodeIds(nodeId, w.es)
    IN  [w EXCEPT !.stack = SubSeq(w.stack, 1, Len(w.stack) - 1) \o children,
                  !.descendants = @ \o children,
                  !.iterations = @ + 1]

\* layout.ts 180-191: the loop over rootIds enters getAllDescendantIds for
\* the next root once the walk of the previous one has returned; after the
\* last root the rest of calculate has no loop that depends on the edges.
LayoutRootStep ==
    /\ walk # Null /\ walk.alg = "layout"
    /\ walk.status = "running"
    /\ walk.stack = <<>>
    /\ walk' = IF walk.rootIds = <<>>
               THEN [walk EXCEPT !.status = "returned"]
               ELSE [walk EXCEPT !.stack = <<Head(walk.rootIds)>>,
                                 !.rootIds = Tail(walk.rootIds),
                                 !.descendants = <<>>,
                                 !.iterations = 0]
    /\ UNCHANGED <<grid, valVars, dragVars, viewVars, stateVars>>

\* layout.ts 88: while (stack.length > 0), one iteration at a time.
LayoutWalkStep ==
    /\ walk # Null /\ walk.alg = "layout"
    /\ walk.status = "running"
    /\ walk.stack # <<>>
    /\ walk.iterations <= 2 ^ MaxWalkEdges    \* keeps a runaway loop finite
    /\ walk' = stackStep(walk)
    /\ UNCHANGED <<grid, valVars, dragVars, viewVars, stateVars>>

RECURSIVE shiftsFrom(_, _, _, _, _)
\* layout.ts 180-191: nodeYShifts after the loop over the rest of rootIds;
\* a later root overwrites the entries of an earlier one.
shiftsFrom(rootIds, es, p, targetRootY, acc) ==
    IF rootIds = <<>> THEN acc
    ELSE LET rootId == Head(rootIds)
             yShift == targetRootY - p[rootId].y
             own == {rootId} \cup SeqRange(layoutDescendantIds(rootId, es))
             next == [n \in DOMAIN acc \cup own |->
                         IF n \in own THEN yShift ELSE acc[n]]
         IN  shiftsFrom(Tail(rootIds), es, p, targetRootY, next)

\* A faulty multi-root shift: every tree gets the shift of the first root.
multiRootShiftsUniform(rootIds, es, p, targetRootY) ==
    [n \in UNION {{rootIds[i]} \cup SeqRange(layoutDescendantIds(rootIds[i], es)) :
                     i \in 1..Len(rootIds)} |-> targetRootY - p[rootIds[1]].y]

\* A faulty multi-root shift: the roots move and their descendants stay.
multiRootShiftsRootsOnly(rootIds, es, p, targetRootY) ==
    [n \in SeqRange(rootIds) |-> targetRootY - p[n].y]

\* layout.ts 178-191: the Map nodeYShifts of the multi-root branch.
multiRootShifts(rootIds, es, p, targetRootY) ==
    shiftsFrom(rootIds, es, p, targetRootY, [n \in {} |-> 0])

\* The least and the greatest of a non-empty set of numbers.
MinOf(S) == CHOOSE m \in S : \A v \in S : m <= v
MaxOf(S) == CHOOSE m \in S : \A v \in S : m >= v

\* A faulty bottom of the single-root branch: the shift is forgotten.
unshiftedBottom(hierarchyBottom, yShift) == hierarchyBottom

\* layout.ts 223: hierarchyBottom = hierarchyBottom + yShift
shiftedBottom(hierarchyBottom, yShift) == hierarchyBottom + yShift

\* A faulty start of the free-node grid: the top margin is left out.
freeNodesStartNoMargin(hierarchyBottom) == hierarchyBottom

\* layout.ts 230: freeNodesStartY = hierarchyBottom + freeNodesTopMargin
freeNodesStartY(hierarchyBottom) ==
    hierarchyBottom + Px(FREE_NODES_TOP_MARGIN)

\* layout.ts 142-270: LayoutCalculator.calculate for the nodes of the dataset
\* with the flags `roots`, the edges es and the positions p.
calculate(es, p, roots) ==
    LET targetRootY == domToCanvasY(ROOT_Y_IN_TOP_BAR)
        connectedNodeIds == SeqRange(Flatten(es)) \cup {n \in Nodes : roots[n]}
        rootIds == SeqToOrder(layoutRootIds(es) \o RootFlagged(roots, 1), <<>>)
        freeNodes == SelectSeq(NodeSeq,
                         LAMBDA n : n \notin connectedNodeIds /\ ~roots[n])
        connectedNodes == SelectSeq(NodeSeq,
                              LAMBDA n : n \in connectedNodeIds \/ roots[n])
        connected == SeqRange(connectedNodes)
        \* 176-202: several roots, each tree with its own shift
        nodeYShifts == multiRootShifts(rootIds, es, p, targetRootY)
        multiY == [n \in connected |->
                      p[n].y + (IF n \in DOMAIN nodeYShifts
                                THEN nodeYShifts[n] ELSE 0)]
        \* 203-224: one root, one shift for all
        hierarchyTop == MinOf({p[n].y : n \in connected})
        yShift == targetRootY - hierarchyTop
        singleY == [n \in connected |-> p[n].y + yShift]
        several == Len(rootIds) > 1
        newY == IF several THEN multiY ELSE singleY
        hierarchyBottom ==
            IF connected = {} THEN targetRootY
            ELSE IF several THEN MaxOf({multiY[n] : n \in connected})
            ELSE shiftedBottom(MaxOf({p[n].y : n \in connected}), yShift)
        \* 230-245: the grid of the free nodes
        cols == calculateFreeNodesGrid(Len(freeNodes)).cols
        startX == 0 - (((cols - 1) * Px(FREE_NODES_SPACING)) \div 2)
        indexOf(n) == (CHOOSE i \in 1..Len(freeNodes) : freeNodes[i] = n) - 1
        result == [n \in Nodes |->
                     IF n \in connected THEN [x |-> p[n].x, y |-> newY[n]]
                     ELSE [x |-> startX + (indexOf(n) % cols) * Px(FREE_NODES_SPACING),
                           y |-> freeNodesStartY(hierarchyBottom)
                                 + (indexOf(n) \div cols) * Px(FREE_NODES_SPACING)]]
    IN  [positions |-> result,
         bounds |-> [minX |-> MinOf({result[n].x : n \in Nodes}),
                     maxX |-> MaxOf({result[n].x : n \in Nodes}),
                     minY |-> MinOf({result[n].y : n \in Nodes}),
                     maxY |-> MaxOf({result[n].y : n \in Nodes})],
         rootIds |-> rootIds]

\* useLayout (part_015) 118-152: arrangeNodes. Every node gets the calculated
\* position, and a calculated root gets the isRoot flag.
arrangeNodes(w) ==
    LET layout == calculate(w.edges, w.pos, w.isRoot)
    IN  [w EXCEPT !.pos = layout.positions,
                  !.isRoot = [n \in Nodes |->
                                 n \in SeqRange(layout.rootIds) \/ w.isRoot[n]]]

\* network.once("stabilized", arrangeNodes) and setTimeout(arrangeNodes, 100):
\* a layout pass, taken while no drag session is open.
ArrangeEv ==
    /\ dragState = Null
    /\ LET w == arrangeNodes(World)
       IN  /\ Commit(w)
           /\ notified' = w.notified
           /\ mutations' = Observed
           /\ ev' = [kind |-> "layout", outcome |-> "handled",
                     node |-> NoNode, pointer |-> Null]
           /\ startPos' = w.pos
           /\ UNCHANGED <<gestures, detached, valVars, viewVars, stateVars, calcVars>>

\* The edges of the forest in which par[n] is the parent of n (0: none).
ForestEdges(par) ==
    SelectSeq([n \in 1..Cardinality(Nodes) |-> <<par[n], n>>],
              LAMBDA e : e[1] # 0)

\* A layout input: any forest over the nodes, as vis.js' hierarchical layout
\* (direction UD) leaves it: every node on a level, a child on a deeper
\* level than its parent; only parentless nodes carry the isRoot flag.
LayoutInit ==
    /\ \E par \in [Nodes -> Nodes \cup {0}] :
           /\ ~HasDirectedCycle(EdgeSetOf(ForestEdges(par)))
           /\ edges = ForestEdges(par)
    /\ \E level \in [Nodes -> 0..(LayoutLevels - 1)] :
           /\ \A i \in 1..Len(edges) : level[edges[i][1]] < level[edges[i][2]]
           /\ pos = [n \in Nodes |->
                        [x |-> Px(NODE_SPACING * n),
                         y |-> Px(LEVEL_SEPARATION * level[n])]]
    /\ \E flags \in [Nodes -> BOOLEAN] :
           /\ \A i \in 1..Len(edges) : ~flags[edges[i][2]]
           /\ isRoot = flags
    /\ color = [n \in Nodes |-> "default"]
    /\ dragState = Null
    /\ topBarLit = FALSE
    /\ notified = 0
    /\ mutations = 0
    /\ gestures = 0
    /\ detached = <<>>
    /\ startPos = pos
    /\ ev = [kind |-> "none", outcome |-> "none", node |-> NoNode, pointer |-> Null]

\* The edges of the graph in which pars[n] are the parents of n, in the
\* order of the children and, for one child, of the parents.
DagEdges(pars) ==
    LET Pair(k) == <<((k - 1) % Cardinality(Nodes)) + 1,
                     ((k - 1) \div Cardinality(Nodes)) + 1>>
    IN  SelectSeq([k \in 1..(Cardinality(Nodes) * Cardinality(Nodes)) |-> Pair(k)],
                  LAMBDA e : e[1] \in pars[e[2]])

\* A layout input with the edges validateNoCycles accepts: any acyclic edge
\* set over the nodes, a node with several parents included, laid out as
\* LayoutInit's forests are.
DagLayoutInit ==
    /\ \E pars \in [Nodes -> SUBSET Nodes] :
           /\ ~HasDirectedCycle(EdgeSetOf(DagEdges(pars)))
           /\ edges = DagEdges(pars)
    /\ \E level \in [Nodes -> 0..(LayoutLevels - 1)] :
           /\ \A i \in 1..Len(edges) : level[edges[i][1]] < level[edges[i][2]]
           /\ pos = [n \in Nodes |->
                        [x |-> Px(NODE_SPACING * n),
                         y |-> Px(LEVEL_SEPARATION * level[n])]]
    /\ \E flags \in [Nodes -> BOOLEAN] :
           /\ \A i \in 1..Len(edges) : ~flags[edges[i][2]]
           /\ isRoot = flags
    /\ color = [n \in Nodes |-> "default"]
    /\ dragState = Null
    /\ topBarLit = FALSE
    /\ notified = 0
    /\ mutations = 0
    /\ gestures = 0
    /\ detached = <<>>
    /\ startPos = pos
    /\ ev = [kind |-> "none", outcome |-> "none", node |-> NoNode, pointer |-> Null]

(***************************************************************************)
(* utils/graphState.ts (src/unnamed/part_019): the payload handed to the   *)
(* host's onChange. A dataset is the sequence of its items; a property an  *)
(* item does not have reads as "undefined".                                *)
(***************************************************************************)
\* Bounds of the datasets handed to extractGraphState.
MaxStateNodes == 2
MaxStateEdges == 2

\* JavaScript's undefined, among values <<v>>.
Undefined == <<>>

\* item.field: <<v>> for the value v, or undefined.
Field(item, field) == IF field \in DOMAIN item THEN <<item[field]>> ELSE Undefined

\* The ids of the nodes of the datasets: two persons and the top bar's node.
StateIds == {1, 2, TOP_BAR_NODE_ID}

\* A VisNode as the hooks leave it: with label, position, colour, metadata
\* and flag; with a flag only; or as the host gave it, with id, name and
\* label only.
VisNodes ==
    UNION {{[id |-> i, name |-> "Alice", label |-> "<b>CEO</b> Alice",
             metadata |-> "CEO", isRoot |-> TRUE, x |-> 100, y |-> 200,
             color |-> "highlight"],
            [id |-> i, name |-> "Bob", label |-> "Bob", isRoot |-> FALSE],
            [id |-> i, name |-> "Carol", label |-> "Carol"]} : i \in StateIds}

\* A VisEdge: id, from and to, with or without dashes and title; between
\* persons, or to or from the top bar's node.
VisEdges ==
    UNION {{[id |-> p, from |-> p[1], to |-> p[2]],
            [id |-> p, from |-> p[1], to |-> p[2], dashes |-> TRUE,
             title |-> "Auto"]} :
               p \in {<<1, 2>>, <<TOP_BAR_NODE_ID, 1>>, <<2, TOP_BAR_NODE_ID>>}}

\* A faulty node entry: the whole dataset item.
payloadNodeSpread(node) == node

\* graphState.ts 17-22: the node's entry of the payload.
payloadNode(node) ==
    [id |-> node.id, name |-> Field(node, "name"),
     metadata |-> Field(node, "metadata"), isRoot |-> Field(node, "isRoot")]

\* graphState.ts 27-30: the edge's entry of the payload.
payloadEdge(edge) == [from |-> edge.from, to |-> edge.to]

\* graphState.ts 10-33
extractGraphState(nodeItems, edgeItems) ==
    LET keptNodes == SelectSeq(nodeItems, LAMBDA n : n.id # TOP_BAR_NODE_ID)
        keptEdges == SelectSeq(edgeItems,
                         LAMBDA e : e.from # TOP_BAR_NODE_ID
                                    /\ e.to # TOP_BAR_NODE_ID)
    IN  [nodes |-> [i \in 1..Len(keptNodes) |-> payloadNode(keptNodes[i])],
         edges |-> [i \in 1..Len(keptEdges) |-> payloadEdge(keptEdges[i])]]

StateInit ==
    /\ gsNodes = <<>>
    /\ gsEdges = <<>>
    /\ gsResult = Null

\* The host or a hook adds a node to nodesDataSet (ids are unique).
StateAddNode ==
    /\ gsResult = Null
    /\ Len(gsNodes) < MaxStateNodes
    /\ \E n \in VisNodes :
           /\ \A i \in 1..Len(gsNodes) : gsNodes[i].id # n.id
           /\ gsNodes' = Append(gsNodes, n)
    /\ UNCHANGED <<gsEdges, gsResult, valVars, dragVars, viewVars, calcVars>>

\* The host or a hook adds an edge to edgesDataSet (ids are unique).
StateAddEdge ==
    /\ gsResult = Null
    /\ Len(gsEdges) < MaxStateEdges
    /\ \E e \in VisEdges :
           /\ \A i \in 1..Len(gsEdges) : gsEdges[i].id # e.id
           /\ gsEdges' = Append(gsEdges, e)
    /\ UNCHANGED <<gsNodes, gsResult, valVars, dragVars, viewVars, calcVars>>

\* OrgGraph.tsx 89-93: notifyChange calls onChange(extractGraphState(...)).
StateExtract ==
    /\ gsResult = Null
    /\ gsResult' = extractGraphState(gsNodes, gsEdges)
    /\ UNCHANGED <<gsNodes, gsEdges, valVars, dragVars, viewVars, calcVars>>

(***************************************************************************)
(* hooks/useViewConstraints.ts (src/unnamed/part_000) and positionView of  *)
(* hooks/useInitialViewPosition.ts. The scale is a fixed-point number in   *)
(* thousandths; view positions are canvas coordinates (see Px). A wheel,   *)
(* pan or positioning event is delivered when its result is exact in these *)
(* units.                                                                  *)
(***************************************************************************)
\* Bound: the view events delivered in one run.
MaxViewEvents == 3

MIN_SCALE == 200
MAX_SCALE == 2000
\* 1 / ZOOM_SPEED: delta = -deltaY / 1000.
ZOOM_SPEED_DEN == 1000
\* The unit of the scale: 1000 stands for 1.
ScaleOne == 1000
\* positionView: the padding added to the content's width.
CONTENT_PADDING == 200

\* network.getScale() when the hook mounts: what the renderer's own initial
\* fit left, within the zoom bounds or outside them.
InitialScales == {100, 1000, 3000}
\* container.clientWidth / clientHeight, and the sizes a resize may report.
ContainerSizes ==
    {[width |-> 800, height |-> 600], [width |-> 175, height |-> 600],
     [width |-> 35, height |-> 300], [width |-> 0, height |-> 600],
     [width |-> 800, height |-> 0]}
\* e.clientX / e.clientY of the mouse events.
ClientPoints == {[x |-> 0, y |-> 0], [x |-> 40, y |-> -100], [x |-> -40, y |-> 100]}
\* e.deltaY of the wheel events: zoom in by 2 and 1.1, out by 0.5, and a
\* wheel turn so large that 1 + delta is negative.
WheelDeltas == {-1000, -100, 500, 5000}

\* -Infinity as a view y: below every y a run can reach.
NegInfinity == -100000000

\* y + d in floating point: -Infinity stays -Infinity.
AddTo(y, d) == IF y = NegInfinity THEN NegInfinity ELSE y + d

\* The host's getViewBounds(scale).minY, when it gives one: the view y that
\* shows the topmost root at ROOT_Y_IN_TOP_BAR * scale below the container's
\* top (as utils/network positionViewForTopY computes it), rounded to the
\* unit of the coordinates; <<>> when the host gives none.
getViewBounds(gives, scale, containerHeight) ==
    LET topCanvasY == findRootNodesMinY(pos, isRoot, edges)
    IN  IF ~gives \/ topCanvasY = <<>> THEN <<>>
        ELSE <<topCanvasY[1] + (containerHeight * ScaleOne) \div scale
                   - Px(ROOT_Y_IN_TOP_BAR)>>

\* part_000 54-57: bounds.minY ?? -Infinity; <<>> stands for -Infinity.
getMinViewY(gives, scale, containerHeight) ==
    getViewBounds(gives, scale, containerHeight)

\* A faulty Math.max that returns the candidate y whatever the limit is.
maxWithMinDropped(minViewY, y) == y

\* Math.max(minViewY, y)
maxWithMin(minViewY, y) ==
    IF minViewY = <<>> THEN y
    ELSE IF minViewY[1] > y THEN minViewY[1] ELSE y

\* A faulty pan that drops the vertical clamp.
clampPanYNone(minViewY, newY) == newY

\* part_000 84: clampedY = Math.max(minViewY, newY)
clampPanY(minViewY, newY) == maxWithMin(minViewY, newY)

\* A faulty clamp that forgets the lower bound.
clampScaleNoMin(raw, den) ==
    IF raw > MAX_SCALE * den THEN MAX_SCALE * den ELSE raw

\* Math.max(MIN_SCALE, Math.min(MAX_SCALE, newScale)) of part_000 120 and of
\* positionView 69, for the fraction raw / den.
clampScale(raw, den) ==
    IF raw < MIN_SCALE * den THEN MIN_SCALE * den
    ELSE IF raw > MAX_SCALE * den THEN MAX_SCALE * den
    ELSE raw

\* a / b is a whole number of units, for a positive b.
Exact(a, b) == b > 0 /\ a % b = 0

\* The hook mounted on a network of scale s, with a host that gives a minY
\* or none. part_000 48-49: intendedScale.current = network.getScale().
ViewInitWith(s, gives) ==
    /\ view = [x |-> 0, y |-> 0, scale |-> s]
    /\ viewRefs = [isDragging |-> FALSE, lastX |-> 0, lastY |-> 0,
                   intendedScale |-> s,
                   previousWidth |-> 800, previousHeight |-> 600]
    /\ viewHost = [givesMinY |-> gives, scale |-> s, isInitialized |-> FALSE]
    /\ container = [width |-> 800, height |-> 600]
    /\ viewHist = [kind |-> "none", outcome |-> "none", events |-> 0,
                   zooms |-> 0, lastZoom |-> 0, redrawn |-> FALSE]

ViewInit == \E s \in InitialScales, gives \in BOOLEAN : ViewInitWith(s, gives)

\* History: one more view event, of this kind and outcome.
ViewDelivered(kind, outcome) ==
    [viewHist EXCEPT !.kind = kind, !.outcome = outcome, !.events = @ + 1,
                     !.redrawn = FALSE]

\* part_000 60-68: handleMouseDown; a press on a node is left to the drag.
MouseDownEv ==
    /\ viewHist.events < MaxViewEvents
    /\ \E e \in ClientPoints, nodeAt \in BOOLEAN :
           IF nodeAt
           THEN /\ viewHist' = ViewDelivered("mousedown", "ignored")
                /\ UNCHANGED viewRefs
           ELSE /\ viewRefs' = [viewRefs EXCEPT !.isDragging = TRUE,
                                                !.lastX = e.x, !.lastY = e.y]
                /\ viewHist' = ViewDelivered("mousedown", "handled")
    /\ UNCHANGED <<view, container, viewHost, valVars, dragVars, stateVars, calcVars>>

\* part_000 70-93: handleMouseMove
MouseMoveEv ==
    /\ viewHist.events < MaxViewEvents
    /\ \E e \in ClientPoints :
           IF ~viewRefs.isDragging
           THEN /\ viewHist' = ViewDelivered("mousemove", "ignored")
                /\ UNCHANGED <<view, viewRefs>>
           ELSE LET deltaX == e.x - viewRefs.lastX
                    deltaY == e.y - viewRefs.lastY
                    scale == view.scale
                    newY == AddTo(view.y, 0 - (Px(deltaY) * ScaleOne) \div scale)
                    minViewY == getMinViewY(viewHost.givesMinY, scale,
                                            container.height)
                IN  /\ Exact(Px(deltaX) * ScaleOne, scale)
                    /\ Exact(Px(deltaY) * ScaleOne, scale)
                    /\ viewRefs' = [viewRefs EXCEPT !.lastX = e.x, !.lastY = e.y]
                    /\ view' = [view EXCEPT
                                   !.x = @ - (Px(deltaX) * ScaleOne) \div scale,
                                   !.y = clampPanY(minViewY, newY)]
                    /\ viewHist' = ViewDelivered("mousemove", "handled")
    /\ UNCHANGED <<container, viewHost, valVars, dragVars, stateVars, calcVars>>

\* part_000 95-100: handleMouseUp
MouseUpEv ==
    /\ viewHist.events < MaxViewEvents
    /\ viewRefs' = [viewRefs EXCEPT !.isDragging = FALSE]
    /\ viewHist' = ViewDelivered("mouseup",
                       IF viewRefs.isDragging THEN "handled" ELSE "ignored")
    /\ UNCHANGED <<view, container, viewHost, valVars, dragVars, stateVars, calcVars>>

\* part_000 102-107: handleMouseLeave
MouseLeaveEv ==
    /\ viewHist.events < MaxViewEvents
    /\ viewRefs' = [viewRefs EXCEPT !.isDragging = FALSE]
    /\ viewHist' = ViewDelivered("mouseleave",
                       IF viewRefs.isDragging THEN "handled" ELSE "ignored")
    /\ UNCHANGED <<view, container, viewHost, valVars, dragVars, stateVars, calcVars>>

\* part_000 110-149: handleWheel
WheelEv ==
    /\ viewHist.events < MaxViewEvents
    /\ \E eDeltaY \in WheelDeltas :
           LET currentScale == view.scale
               containerHeight == container.height
               \* 118-120: currentScale * (1 + delta), clamped
               raw == clampScale(currentScale * (ZOOM_SPEED_DEN - eDeltaY),
                                 ZOOM_SPEED_DEN)
               newScale == raw \div ZOOM_SPEED_DEN
               currentMinViewY == getMinViewY(viewHost.givesMinY, currentScale,
                                              containerHeight)
               atTopLimit == IF currentMinViewY = <<>> THEN FALSE
                             ELSE Abs(view.y - currentMinViewY[1]) < Px(1)
               minViewY == getMinViewY(viewHost.givesMinY, newScale,
                                       containerHeight)
               topY == AddTo(view.y, 0 - (containerHeight * ScaleOne) \div currentScale)
               newViewY ==
                   IF atTopLimit THEN minViewY[1]
                   ELSE maxWithMin(minViewY,
                            AddTo(topY, (containerHeight * ScaleOne) \div newScale))
           IN  /\ Exact(raw, ZOOM_SPEED_DEN)
               /\ atTopLimit \/ /\ Exact(containerHeight * ScaleOne, currentScale)
                                /\ Exact(containerHeight * ScaleOne, newScale)
               /\ view' = [x |-> view.x, y |-> newViewY, scale |-> newScale]
               /\ viewRefs' = [viewRefs EXCEPT !.intendedScale = newScale]
               /\ viewHost' = [viewHost EXCEPT !.scale = newScale]
               /\ viewHist' = [ViewDelivered("wheel", "handled") EXCEPT
                                  !.zooms = @ + 1, !.lastZoom = newScale]
    /\ UNCHANGED <<container, valVars, dragVars, stateVars, calcVars>>

\* A faulty resize that resets the scale to 1.
resizedScaleReset(refs) == ScaleOne

\* part_000 178: scale: intendedScale.current
resizedScale(refs) == refs.intendedScale

\* A faulty skip test that forgets the invalid dimensions.
skipResizeSameSizeOnly(refs, size) ==
    refs.previousWidth = size.width /\ refs.previousHeight = size.height

\* part_000 161-167: skip if no actual size change or invalid dimensions.
skipResize(refs, size) ==
    \/ (refs.previousWidth = size.width /\ refs.previousHeight = size.height)
    \/ size.height = 0
    \/ size.width = 0

\* part_000 155-184: the ResizeObserver's callback with the new contentRect.
ResizeEv ==
    /\ viewHist.events < MaxViewEvents
    /\ \E size \in ContainerSizes :
           /\ container' = size
           /\ IF skipResize(viewRefs, size)
              THEN /\ viewHist' = ViewDelivered("resize", "ignored")
                   /\ UNCHANGED <<view, viewRefs>>
              ELSE LET minViewY == getMinViewY(viewHost.givesMinY,
                                       viewRefs.intendedScale, size.height)
                   IN  /\ view' = [x |-> view.x,
                                   y |-> IF minViewY = <<>> THEN NegInfinity
                                         ELSE minViewY[1],
                                   scale |-> resizedScale(viewRefs)]
                       /\ viewRefs' = [viewRefs EXCEPT
                                          !.previousWidth = size.width,
                                          !.previousHeight = size.height]
                       /\ viewHist' = [ViewDelivered("resize", "handled")
                                           EXCEPT !.redrawn = TRUE]
    /\ UNCHANGED <<viewHost, valVars, dragVars, stateVars, calcVars>>

\* useInitialViewPosition.ts 41-89: positionView, run once (isInitialized)
\* after the layout.
PositionViewEv ==
    /\ viewHist.events < MaxViewEvents
    /\ ~viewHost.isInitialized
    /\ LET bounds == calculate(edges, pos, isRoot).bounds
           centerX == (bounds.minX + bounds.maxX) \div 2
           contentWidth == bounds.maxX - bounds.minX + Px(CONTENT_PADDING)
           \* 68-69: min(1, containerWidth / contentWidth), clamped
           ratioNum == IF Px(container.width) > contentWidth
                       THEN contentWidth ELSE Px(container.width)
           raw == clampScale(ratioNum * ScaleOne, contentWidth)
           newScale == raw \div contentWidth
           \* 72: viewY = bounds.minY - (ROOT_Y_IN_TOP_BAR - containerHeight / 2) / newScale
           offset == (Px(ROOT_Y_IN_TOP_BAR) - container.height) * ScaleOne
       IN  /\ Exact(raw, contentWidth)
           /\ Exact(offset, newScale)
           /\ view' = [x |-> centerX, y |-> bounds.minY - offset \div newScale,
                       scale |-> newScale]
           /\ viewHost' = [viewHost EXCEPT !.scale = newScale,
                                            !.isInitialized = TRUE]
           /\ viewHist' = ViewDelivered("positionView", "handled")
    /\ UNCHANGED <<viewRefs, container, valVars, dragVars, stateVars, calcVars>>

\* C1: validateNoCycles returns without error for every valid forest and
\* fails with a cycle-detected error for every edge list that contains a
\* directed cycle, a single self-loop included.
C1_ValidateDecidesCycles ==
    vResult # "pending" =>
        /\ IsForest(EdgeSetOf(vEdges)) => vResult = "ok"
        /\ HasDirectedCycle(EdgeSetOf(vEdges)) => vResult = "CycleDetected"

\* C1 witness: a forest validated after a restart met an already visited node
\* (edge 2->3 listed before 1->2), and nothing was thrown.
C1_Witness ==
    /\ vResult = "ok"
    /\ vEdges = <<<<2, 3>>, <<1, 2>>>>

(***************************************************************************)
(* Drag state machine properties                                           *)
(***************************************************************************)
\* The dragged node of the event just handled.
Dragged == ev.node

MoveHandled == ev'.kind = "dragging" /\ ev'.outcome = "handled"

GestureEnded == ev.kind = "dragEnd" /\ ev.outcome = "handled"

\* The displacement handleConnectedDragging measured in the step: the
\* pointer's y, less the grab offset, from the start position.
StepDisplacement ==
    ev'.pointer.y - dragState'.pointerOffset.dy - dragState.originalY

\* C2: starting from a forest, after any sequence of drag-start, drag-move
\* and drag-end events the edge set is still a forest: it has no directed
\* cycle, no self-loop, and every node has at most one incoming edge.
C2_EdgesStayForest ==
    /\ IsForest(EdgeSetOf(edges))
    /\ \A i \in 1..Len(edges) : edges[i][1] # edges[i][2]
    /\ \A i, j \in 1..Len(edges) : edges[i][2] = edges[j][2] => i = j

\* C2 witness: node 2 was detached from node 1 and dropped on node 3.
C2_Witness ==
    /\ GestureEnded
    /\ Dragged = 2
    /\ EdgeSetOf(edges) = {<<1, 3>>, <<3, 2>>}

\* C3: the drag-move that detaches removes exactly the dragged node's
\* incoming edge (one edge when it has a parent); every other edge, the
\* edges among its descendants included, stays, in the same order; and the
\* dragged node's isRoot flag is false afterwards.
C3_DetachRemovesOnlyIncomingEdge ==
    [][ (MoveHandled /\ ~dragState.snappedOut /\ dragState'.snappedOut) =>
            LET n == ev'.node
                incoming == {i \in 1..Len(edges) : edges[i][2] = n}
            IN  /\ edges' = SelectSeq(edges, LAMBDA e : e[2] # n)
                /\ incoming # {} => Len(edges') = Len(edges) - 1
                /\ isRoot'[n] = FALSE
                /\ \A m \in Nodes \ {n} : isRoot'[m] = isRoot[m] ]_vars

\* C3 witness: for the forest 1 -> 2, 1 -> 3, node 2 was dragged one pixel
\* past the threshold; the edge 1 -> 3 alone is left and 2 is not a root.
C3_Witness ==
    /\ ev.kind = "dragging"
    /\ Dragged = 2
    /\ ev.pointer = Pt(-75, 281)
    /\ dragState # Null
    /\ dragState.snappedOut
    /\ edges = <<<<1, 3>>>>
    /\ ~isRoot[2]

\* C4 as stated: the edge removed in a gesture is never in the edge set
\* again during that gesture.
C4_NeverReAdded ==
    detached # <<>> => detached[1] \notin EdgeSetOf(edges)

\* C4: a drag-move removes the dragged node's incoming edge exactly when the
\* node is still attached and |displacement| exceeds the threshold, so once
\* per gesture; no drag-move adds an edge, and the removed edge is absent
\* after every later drag-move of the gesture, the ones within threshold
\* distance included. (Only the gesture's drag-end can add an edge.)
C4_MovesRemoveOnceAndNeverAdd ==
    [][ MoveHandled =>
            LET n == ev'.node
                hasParent == \E e \in EdgeSetOf(edges) : e[2] = n
            IN  /\ EdgeSetOf(edges') \subseteq EdgeSetOf(edges)
                /\ (edges' # edges) <=>
                       /\ ~dragState.snappedOut
                       /\ hasParent
                       /\ Abs(StepDisplacement) > Px(SNAP_OUT_THRESHOLD)
                /\ Len(edges) - Len(edges') <= 1
                /\ detached' # <<>> => detached'[1] \notin EdgeSetOf(edges') ]_vars

\* C4 witness: after the detachment of node 2 the pointer went back to the
\* start position, and the edge 1 -> 2 stayed removed.
C4_Witness ==
    /\ ev.kind = "dragging"
    /\ Dragged = 2
    /\ detached = <<<<1, 2>>>>
    /\ ev.pointer = Pt(-75, 130)
    /\ <<1, 2>> \notin EdgeSetOf(edges)

\* C5 as stated: a gesture with any structural mutation has fired the
\* hierarchy-changed notification exactly once by its drag-end.
C5_OncePerGesture ==
    (GestureEnded /\ mutations > 0) => notified = 1

\* C5: the hierarchy-changed notification is fired exactly once for each
\* structural mutation of a gesture: once at the drag-move that detaches and
\* once at the drag-end that attaches or creates a root, so twice in a
\* gesture that does both.
C5_OncePerMutation ==
    /\ notified = mutations
    /\ notified <= 2

\* C5 witness: a gesture that detached and then attached or created a root.
C5_Witness ==
    /\ GestureEnded
    /\ mutations = 2
    /\ notified = 2

\* C6: a gesture without a structural change (a rubber-band drag that snaps
\* back, a free node moved and released over no target and outside the root
\* band) never fires the hierarchy-changed notification.
C6_NoChangeNoNotification ==
    mutations = 0 => notified = 0

\* C6 witness: node 2 was dragged sideways within the threshold and
\* released; it snapped back under node 1 without a notification.
C6_Witness ==
    /\ GestureEnded
    /\ Dragged = 2
    /\ pos[2].x # Px(-75)
    /\ <<1, 2>> \in EdgeSetOf(edges)
    /\ mutations = 0
    /\ notified = 0

\* C7: while a session is active, a drag-start for a different node leaves
\* the session (node id, start position, subtree snapshot, flags) unchanged.
C7_SecondStartIgnored ==
    dragState # Null =>
        \A n \in Nodes \ {dragState.subtree.rootId} :
            handleDragStart(World, <<n>>).w.dragState = dragState

\* C8: a drag-move or drag-end whose node id differs from the session's
\* dragged node, or that arrives when no session is active, changes nothing:
\* no position, edge, isRoot flag, highlight or session field, and no
\* notification.
C8_StaleEventsChangeNothing ==
    \A nodes \in Selections :
        (IF dragState = Null THEN TRUE
         ELSE nodes # <<dragState.subtree.rootId>>) =>
            /\ handleDragEnd(World, nodes).w = World
            /\ \A pointer \in Pointers :
                   handleDragging(World, nodes, pointer).w = World

\* C8 witness: in the middle of a gesture a drag-move or drag-end for
\* another node was delivered and ignored.
C8_Witness ==
    /\ dragState # Null
    /\ dragState.pointerOffset # Null
    /\ ev.kind \in {"dragging", "dragEnd"}
    /\ ev.outcome = "ignored"

\* C9: a drag-start for a node id that is not in the node set raises no
\* error, creates no session and leaves all state unchanged.
C9_UnknownStartIsNoOp ==
    handleDragStart(World, <<UnknownId>>) = [w |-> World, outcome |-> "ignored"]

\* C10 as stated: a drag-move of an attached node within the threshold puts
\* the node at y = start + displacement * factor and at the pointer's x, and
\* removes no edge.
C10_AtPointerX ==
    [][ (MoveHandled /\ ~dragState.snappedOut
           /\ Abs(StepDisplacement) <= Px(SNAP_OUT_THRESHOLD)) =>
            LET n == ev'.node
            IN  /\ RUBBER_BAND_DEN * (pos'[n].y - dragState.originalY)
                       = StepDisplacement * RUBBER_BAND_NUM
                /\ pos'[n].x = ev'.pointer.x
                /\ edges' = edges ]_vars

\* C10: with the displacement measured from the pointer less the grab offset
\* (recorded at the gesture's first drag-move), a drag-move of an attached
\* node with |displacement| <= SNAP_OUT_THRESHOLD, equality included, puts
\* the node at y = start + displacement * RUBBER_BAND_FACTOR and at the
\* pointer's x less the grab offset's x, removes no edge and keeps the node
\* attached.
C10_RubberBandLaw ==
    [][ (MoveHandled /\ ~dragState.snappedOut
           /\ Abs(StepDisplacement) <= Px(SNAP_OUT_THRESHOLD)) =>
            LET n == ev'.node
            IN  /\ RUBBER_BAND_DEN * (pos'[n].y - dragState.originalY)
                       = StepDisplacement * RUBBER_BAND_NUM
                /\ pos'[n].x = ev'.pointer.x - dragState'.pointerOffset.dx
                /\ edges' = edges
                /\ isRoot' = isRoot
                /\ ~dragState'.snappedOut ]_vars

\* C10 witness: node 2 was dragged down by exactly the threshold: it sits
\* 22.5 pixels below its start, under the pointer, still a child of node 1.
C10_Witness ==
    /\ ev.kind = "dragging"
    /\ Dragged = 2
    /\ ev.pointer = Pt(-75, 130 + SNAP_OUT_THRESHOLD)
    /\ dragState # Null
    /\ ~dragState.snappedOut
    /\ pos[2] = [x |-> Px(-75), y |-> Px(130) + 45]
    /\ edges = <<<<1, 2>>, <<1, 3>>>>

C12_SnapBackKeepsXRestoresY ==
    [][ /\ (ev'.kind = "dragStart" /\ ev'.outcome = "handled") =>
              /\ dragState'.originalX = pos[ev'.node].x
              /\ dragState'.originalY = pos[ev'.node].y
        /\ MoveHandled =>
              /\ dragState'.originalX = dragState.originalX
              /\ dragState'.originalY = dragState.originalY
        /\ (ev'.kind = "dragEnd" /\ ev'.outcome = "handled"
               /\ ~dragState.snappedOut) =>
              LET n == ev'.node
              IN  /\ pos'[n].y = dragState.originalY
                  /\ pos'[n].x = pos[n].x
                  /\ edges' = edges
                  /\ isRoot' = isRoot
                  /\ mutations' = 0 ]_vars

\* C12 witness: root 1 was dragged 200 px to the right within the root band
\* and released: only its x changed and it is still the only root.
C12_Witness ==
    /\ GestureEnded
    /\ Dragged = 1
    /\ pos[1] = Pt(200, 30)
    /\ {n \in Nodes : isRoot[n]} = {1}
    /\ edges = <<<<1, 2>>, <<1, 3>>>>

\* C13: when a snapped-out gesture ends with a drop target highlighted,
\* exactly one edge, target -> dragged, is added and no edge is removed; the
\* dragged node is placed at y = target.y + LEVEL_SEPARATION and at an x to
\* the right of every existing child of the target, or at the target's x
\* when the target has no child.
C13_AttachAddsEdgeBelowTarget ==
    [][ (ev'.kind = "dragEnd" /\ ev'.outcome = "handled"
           /\ dragState.snappedOut
           /\ dragState.highlightedNodeId # NoNode) =>
            LET n == ev'.node
                target == dragState.highlightedNodeId
                kids == {e[2] : e \in {f \in EdgeSetOf(edges) : f[1] = target}}
            IN  /\ <<target, n>> \notin EdgeSetOf(edges)
                /\ edges' = Append(edges, <<target, n>>)
                /\ pos'[target] = pos[target]
                /\ pos'[n].y = pos[target].y + Px(LEVEL_SEPARATION)
                /\ kids = {} => pos'[n].x = pos[target].x
                /\ \A k \in kids : pos'[k] = pos[k] /\ pos'[n].x > pos[k].x ]_vars

\* C13 witness: the free node 4 was dropped on node 1, whose children 2 and
\* 3 sit at x = -75 and 75: it is a child of 1, one level below it, at 225.
C13_Witness ==
    /\ GestureEnded
    /\ Dragged = 4
    /\ edges = <<<<1, 2>>, <<1, 3>>, <<1, 4>>>>
    /\ pos[4] = Pt(75 + NODE_SPACING, 30 + LEVEL_SEPARATION)

\* C14: when a snapped-out gesture ends with the root band armed, the
\* dragged node gets isRoot = true (no other flag changes), it is placed at
\* the y of the existing roots, or at the centre of the root band when no
\* node is flagged as a root, and no edge is added or removed.
C14_CreateRootAtRootLevel ==
    [][ (ev'.kind = "dragEnd" /\ ev'.outcome = "handled"
           /\ dragState.snappedOut /\ dragState.isOverTopBar) =>
            LET n == ev'.node
                existing == {r \in Nodes \ {n} : isRoot[r]}
            IN  /\ isRoot' = [isRoot EXCEPT ![n] = TRUE]
                /\ \A r \in existing : pos'[n].y = pos[r].y /\ pos'[r] = pos[r]
                /\ existing = {} => pos'[n].y = Px(TOP_BAR_HEIGHT \div 2)
                /\ edges' = edges ]_vars

\* C14 witness: the free node 4 was released in the root band beside root 1:
\* it is a root at root 1's y, and the edges are the ones there were.
C14_Witness ==
    /\ GestureEnded
    /\ Dragged = 4
    /\ isRoot[4] /\ isRoot[1]
    /\ pos[4].y = pos[1].y
    /\ edges = <<<<1, 2>>, <<1, 3>>>>

\* C15: after a create-root commit the new root's bounding box intersects
\* the bounding box of no other root.
C15_NewRootOverlapsNoRoot ==
    [][ (ev'.kind = "dragEnd" /\ ev'.outcome = "handled"
           /\ dragState.snappedOut /\ dragState.isOverTopBar) =>
            \A r \in Nodes \ {ev'.node} :
                isRoot'[r] => ~boxesOverlap(getBoundingBox(pos', ev'.node),
                                            getBoundingBox(pos', r)) ]_vars

\* C16 as stated: the validator accepts an edge list only if it is an
\* acyclic forest.
C16_AcceptsOnlyForests ==
    vResult = "ok" => IsForest(EdgeSetOf(vEdges))

\* C16: the validator rejects an edge list exactly when it has a directed
\* cycle; an acyclic list in which a node has more than one incoming edge
\* (1 -> 2, 1 -> 3, 2 -> 3) is accepted.
C16_AcceptsExactlyAcyclic ==
    vResult # "pending" =>
        (vResult = "ok" <=> ~HasDirectedCycle(EdgeSetOf(vEdges)))

\* C16 witness: the diamond 1 -> 2, 1 -> 3, 2 -> 3 was validated and accepted.
C16_Witness ==
    /\ vResult = "ok"
    /\ vEdges = <<<<1, 2>>, <<1, 3>>, <<2, 3>>>>

(***************************************************************************)
(* Layout properties                                                       *)
(***************************************************************************)
LayoutDone == ev.kind = "layout"

IsLayoutRoot(n) ==
    \/ isRoot[n]
    \/ /\ \E e \in EdgeSetOf(edges) : e[1] = n
       /\ ~\E e \in EdgeSetOf(edges) : e[2] = n

\* C18: after a layout pass over a forest every root, whether it has an
\* outgoing edge and no incoming one or carries the isRoot flag, has y equal
\* to the canonical target Y, with several trees of differing depths as with
\* exactly one tree; so all roots share the same Y.
C18_RootsAtTargetY ==
    LayoutDone =>
        \A n \in Nodes :
            IsLayoutRoot(n) => pos[n].y = domToCanvasY(ROOT_Y_IN_TOP_BAR)

\* C18 witness: a layout pass over a three-level tree 1 -> 2 -> 3 beside the
\* childless flagged root 4; both roots are on the target Y.
C18_Witness ==
    /\ LayoutDone
    /\ edges = <<<<1, 2>>, <<2, 3>>>>
    /\ isRoot[1] /\ isRoot[4]
    /\ pos[1].y = pos[4].y
    /\ pos[3].y = pos[1].y + 2 * Px(LEVEL_SEPARATION)

\* C19: the layout is idempotent: calculate run again on the positions it
\* has just produced, for the same nodes and edges (with the flags as they
\* were, and as arrangeNodes leaves them), produces exactly those positions.
C19_LayoutIdempotent ==
    [][ev'.kind = "layout" =>
          /\ calculate(edges', pos', isRoot).positions = pos'
          /\ calculate(edges', pos', isRoot').positions = pos']_vars

\* C19 witness: a layout pass over the tree 1 -> 2 with the free nodes 3 and
\* 4, which the pass has put side by side in the grid below node 2.
C19_Witness ==
    /\ LayoutDone
    /\ edges = <<<<1, 2>>>>
    /\ ~isRoot[3] /\ ~isRoot[4]
    /\ pos[2].y = Px(ROOT_Y_IN_TOP_BAR + LEVEL_SEPARATION)
    /\ pos[3] = [x |-> 0 - Px(FREE_NODES_SPACING) \div 2,
                 y |-> pos[2].y + Px(FREE_NODES_TOP_MARGIN)]
    /\ pos[4] = [x |-> Px(FREE_NODES_SPACING) \div 2, y |-> pos[3].y]

\* The nodes the layout treats as connected (an end of an edge, or flagged
\* isRoot) and as free (the others).
ConnectedNodes ==
    {n \in Nodes : isRoot[n] \/ \E e \in EdgeSetOf(edges) : n \in {e[1], e[2]}}

FreeNodes == Nodes \ ConnectedNodes

\* The y of the lowest connected node plus the free-node top margin.
MarginLine ==
    MaxOf({pos[n].y : n \in ConnectedNodes}) + Px(FREE_NODES_TOP_MARGIN)

\* C20 as stated: after layout every free node's y is strictly greater than
\* the maximum y over all connected nodes plus the free-node top margin.
C20_StrictlyBelowMargin ==
    (LayoutDone /\ ConnectedNodes # {}) =>
        \A f \in FreeNodes : pos[f].y > MarginLine

\* C20, amended: after layout every free node's y is at least the maximum y
\* over all connected nodes plus the free-node top margin; it is that value
\* plus a whole number of grid spacings, and the free nodes of the first row
\* (the first free node among them) are exactly on it.
C20_AtOrBelowMargin ==
    (LayoutDone /\ ConnectedNodes # {}) =>
        /\ \A f \in FreeNodes :
               /\ pos[f].y >= MarginLine
               /\ (pos[f].y - MarginLine) % Px(FREE_NODES_SPACING) = 0
        /\ FreeNodes # {} => pos[MinOf(FreeNodes)].y = MarginLine

\* C20 witness: the layout of 1 -> 2, 1 -> 3 with the free node 4, which
\* lies exactly the top margin below nodes 2 and 3.
C20_Witness ==
    /\ LayoutDone
    /\ edges = <<<<1, 2>>, <<1, 3>>>>
    /\ FreeNodes = {4}
    /\ pos[2].y = pos[1].y + Px(LEVEL_SEPARATION)
    /\ pos[3].y = pos[2].y
    /\ pos[4].y = pos[2].y + Px(FREE_NODES_TOP_MARGIN)

(***************************************************************************)
(* View properties                                                         *)
(***************************************************************************)
ResizeHandled == viewHist.kind = "resize" /\ viewHist.outcome = "handled"

ScaleWithinBounds == MIN_SCALE <= view.scale /\ view.scale <= MAX_SCALE

\* C21: after any handled container resize, the view scale equals exactly
\* the scale set by the user's most recent explicit zoom (wheel) action.
C21_ResizeKeepsChosenScale ==
    (ResizeHandled /\ viewHist.zooms > 0) => view.scale = viewHist.lastZoom

\* C21 witness: the user zoomed out to 0.5, the initial positioning then set
\* the scale to 1, and a handled resize brought back 0.5.
C21_Witness ==
    /\ ResizeHandled
    /\ viewHist.zooms = 1
    /\ viewHist.lastZoom = 500
    /\ viewHost.isInitialized
    /\ viewHost.scale = ScaleOne
    /\ view.scale = 500

\* C22: after any sequence of wheel events, of any magnitude and direction,
\* the view scale lies within [MIN_SCALE, MAX_SCALE], and so does the scale
\* chosen by the initial view positioning.
C22_ScaleStaysWithinBounds ==
    (viewHist.zooms > 0 \/ viewHist.kind = "positionView") => ScaleWithinBounds

\* C22 witness: after a wheel event the container shrank to 35 px, and the
\* initial positioning, whose fitting scale would be 0.1, chose MIN_SCALE.
C22_Witness ==
    /\ viewHist.kind = "positionView"
    /\ viewHist.zooms = 1
    /\ container.width = 35
    /\ view.scale = MIN_SCALE

PanHandled == viewHist'.kind = "mousemove" /\ viewHist'.outcome = "handled"

\* C23: after any pan movement the view's vertical position is at least the
\* minimum-Y limit for the current scale, while the horizontal position
\* follows the pointer delta without any clamp.
C23_PanClampsOnlyY ==
    [][PanHandled =>
          LET minViewY == getMinViewY(viewHost.givesMinY, view'.scale,
                                      container'.height)
              deltaX == viewRefs'.lastX - viewRefs.lastX
          IN  /\ minViewY # <<>> => view'.y >= minViewY[1]
              /\ view'.x = view.x - (Px(deltaX) * ScaleOne) \div view.scale]_vars

\* C23 witness: a pan by (40, -100) px from above the limit: the view went
\* 40 px to the left and its y was clamped to the limit.
C23_Witness ==
    /\ viewHist.kind = "mousemove" /\ viewHist.outcome = "handled"
    /\ viewHost.givesMinY
    /\ view.scale = ScaleOne
    /\ view.x = 0 - Px(40)
    /\ view.y = getMinViewY(TRUE, view.scale, container.height)[1]

(***************************************************************************)
(* Graph state properties                                                  *)
(***************************************************************************)
\* C24: the hierarchy-changed payload contains, for every non-internal
\* node, exactly the fields id, name, metadata and isRoot, with the
\* dataset's values, and for every edge (between such nodes) exactly from
\* and to; no label, colour, position or edge id appears in it.
C24_PayloadHasOnlyPersistentFields ==
    gsResult # Null =>
        LET persons == SelectSeq(gsNodes, LAMBDA n : n.id # TOP_BAR_NODE_ID)
            links == SelectSeq(gsEdges,
                         LAMBDA e : e.from # TOP_BAR_NODE_ID
                                    /\ e.to # TOP_BAR_NODE_ID)
        IN  /\ Len(gsResult.nodes) = Len(persons)
            /\ \A i \in 1..Len(persons) :
                   LET r == gsResult.nodes[i]
                       n == persons[i]
                   IN  /\ DOMAIN r = {"id", "name", "metadata", "isRoot"}
                       /\ r.id = n.id
                       /\ r.name = <<n.name>>
                       /\ r.metadata = IF "metadata" \in DOMAIN n
                                       THEN <<n.metadata>> ELSE Undefined
                       /\ r.isRoot = IF "isRoot" \in DOMAIN n
                                     THEN <<n.isRoot>> ELSE Undefined
            /\ Len(gsResult.edges) = Len(links)
            /\ \A i \in 1..Len(links) :
                   LET e == gsResult.edges[i]
                   IN  /\ DOMAIN e = {"from", "to"}
                       /\ e.from = links[i].from
                       /\ e.to = links[i].to

\* C24 witness: the payload of a dataset that holds a highlighted, placed
\* node with a label, the top bar's node, a dashed edge between persons
\* and an edge from the top bar's node.
C24_Witness ==
    /\ gsResult # Null
    /\ \E i \in 1..Len(gsNodes) :
           gsNodes[i].id = 1 /\ "color" \in DOMAIN gsNodes[i]
    /\ \E i \in 1..Len(gsNodes) : gsNodes[i].id = TOP_BAR_NODE_ID
    /\ \E i \in 1..Len(gsEdges) :
           gsEdges[i].from = TOP_BAR_NODE_ID
    /\ \E i \in 1..Len(gsEdges) :
           gsEdges[i].from = 1 /\ gsEdges[i].to = 2
           /\ "dashes" \in DOMAIN gsEdges[i]
    /\ Len(gsResult.nodes) = 1
    /\ Len(gsResult.edges) = 1

(***************************************************************************)
(* Free dragging properties                                                *)
(***************************************************************************)
\* The session is in the snapped-out state.
SnappedOut == dragState # Null /\ dragState.snappedOut

\* The step delivers an event the session's gesture goes on after: anything
\* but a drag-start or drag-end the handler acted on.
GestureGoesOn ==
    ~(ev'.outcome = "handled" /\ ev'.kind \in {"dragStart", "dragEnd"})

\* C25: a drag-move past the threshold snaps the gesture out; once snapped
\* out, it stays snapped out until its drag-end, and every later drag-move of the gesture puts the dragged node
\* exactly at the pointer less the grab offset, with no rubber-band damping,
\* also when the displacement from the start is within the threshold again.
C25_SnappedOutNeverReverts ==
    [][ /\ (MoveHandled /\ ~dragState.snappedOut
              /\ Abs(StepDisplacement) > Px(SNAP_OUT_THRESHOLD)) =>
               dragState'.snappedOut
        /\ SnappedOut =>
             /\ GestureGoesOn => (dragState' # Null /\ dragState'.snappedOut)
             /\ MoveHandled =>
                  pos'[ev'.node] =
                      [x |-> ev'.pointer.x - dragState'.pointerOffset.dx,
                       y |-> ev'.pointer.y - dragState'.pointerOffset.dy] ]_vars

\* C25 witness: node 2 was pulled off node 1 and then moved back to ten
\* pixels from its start, well within the threshold; it sits at the pointer,
\* not at the rubber-band position, and is still snapped out.
C25_Witness ==
    /\ ev.kind = "dragging"
    /\ Dragged = 2
    /\ detached = <<<<1, 2>>>>
    /\ ev.pointer = Pt(-65, 140)
    /\ SnappedOut
    /\ dragState.originalY = Px(130)
    /\ pos[2] = Pt(-65, 140)

\* The node has an incoming or an outgoing edge.
HasEdge(n) == \E i \in 1..Len(edges) : n = edges[i][1] \/ n = edges[i][2]

\* C26: the session's highlighted drop target is never the dragged node or
\* one of the descendants captured at drag-start, and it is a declared root
\* or a node with at least one incoming or outgoing edge.
C26_TargetOutsideSubtreeInHierarchy ==
    (dragState # Null /\ dragState.highlightedNodeId # NoNode) =>
        LET target == dragState.highlightedNodeId
        IN  /\ target # dragState.subtree.rootId
            /\ target \notin SeqRange(dragState.subtree.descendantIds)
            /\ isRoot[target] \/ HasEdge(target)

\* C26 witness: node 2, pulled off node 1, is held over its former sibling 3,
\* which is highlighted; node 3 is still a child of node 1.
C26_Witness ==
    /\ ev.kind = "dragging"
    /\ Dragged = 2
    /\ dragState # Null
    /\ dragState.highlightedNodeId = 3
    /\ color[3] = "highlight"
    /\ edges = <<<<1, 3>>>>

\* The nodes that carry the drop-target highlight in a world.
HighlightedIn(w) == {n \in Nodes : w.color[n] = "highlight"}

\* At most one node is highlighted, and the root band is not lit while a
\* node is.
SingleTarget(w) ==
    /\ Cardinality(HighlightedIn(w)) <= 1
    /\ HighlightedIn(w) # {} => ~w.topBarLit

\* C27: at every point of every gesture at most one node carries the
\* drop-target highlight and the root band is not armed while a node is
\* highlighted: in every state, and after every drag-start the handler
\* acts on and every drag-move of the gesture it starts.
C27_AtMostOneTargetAndNotTheBand ==
    /\ SingleTarget(World)
    /\ \A n \in Nodes :
           LET started == handleDragStart(World, <<n>>).w
           IN  /\ SingleTarget(started)
               /\ started.dragState.snappedOut =>
                      \A pointer \in Pointers :
                          SingleTarget(handleDragging(started, <<n>>, pointer).w)

\* The nodes at the top of a hierarchy: flagged as a root, or with a child
\* and no parent.
TopNodes ==
    {n \in Nodes : \/ isRoot[n]
                   \/ /\ \E i \in 1..Len(edges) : edges[i][1] = n
                      /\ ~\E i \in 1..Len(edges) : edges[i][2] = n}

\* The root band's lower boundary on the canvas: the band reaches
\* TOP_BAR_HEIGHT - ROOT_Y_IN_TOP_BAR below the topmost of these nodes, or
\* below y = 0 when there is none.
BandLowerBoundary ==
    (IF TopNodes = {} THEN 0 ELSE MinOf({pos[n].y : n \in TopNodes}))
        + Px(TOP_BAR_HEIGHT - ROOT_Y_IN_TOP_BAR)

\* C28: after a drag-move of a snapped-out session that overlaps no
\* candidate node, the root band is armed if and only if the top edge of the
\* dragged node's bounding box is above the root band's lower boundary;
\* where the node's centre is makes no difference.
C28_ArmedIffTopEdgeInBand ==
    [][ (SnappedOut /\ MoveHandled /\ dragState'.highlightedNodeId = NoNode) =>
            (dragState'.isOverTopBar
                <=> getBoundingBox(pos', ev'.node).top < BandLowerBoundary') ]_vars

\* C28 witness: node 2, pulled off node 1, is held just below root 1: its
\* centre is below the band's lower boundary and its top edge above it, no
\* node is highlighted, and the band is armed.
C28_Witness ==
    /\ ev.kind = "dragging"
    /\ Dragged = 2
    /\ SnappedOut
    /\ dragState.highlightedNodeId = NoNode
    /\ pos[2].y > BandLowerBoundary
    /\ getBoundingBox(pos, 2).top < BandLowerBoundary
    /\ dragState.isOverTopBar
    /\ topBarLit

\* The step is the detaching drag-move of the gesture.
Detaching == MoveHandled /\ ~dragState.snappedOut /\ dragState'.snappedOut

\* C29: at the detaching drag-move every node outside the dragged subtree is
\* where it was when the gesture started, whatever the rendering
\* collaborator did to it since.
C29_OthersBackAtPreDragPosition ==
    [][ Detaching =>
            \A n \in Nodes \ getSubtreeNodeIds(dragState.subtree) :
                pos'[n] = startPos[n] ]_vars

(***************************************************************************)
(* Layout frame properties                                                 *)
(***************************************************************************)
\* The step is a layout pass.
LayoutPass == ev'.kind = "layout"

\* The roots of the layout above a node: those it descends from.
RootsAbove(d) ==
    {r \in Nodes : IsLayoutRoot(r) /\ d \in Descendants(EdgeSetOf(edges), r)}

\* C30 as stated: a layout pass changes the x of no connected node, and for
\* every root and each of its descendants the descendant's y offset from
\* the root is the same after the pass as before.
C30_TreesMoveAsUnits ==
    [][ LayoutPass =>
          /\ \A n \in ConnectedNodes : pos'[n].x = pos[n].x
          /\ \A d \in Nodes : \A r \in RootsAbove(d) :
                 pos'[d].y - pos'[r].y = pos[d].y - pos[r].y ]_vars

\* C30: a layout pass changes the x of no connected node, and every node
\* that descends from exactly one root keeps its y offset from that root.
C30_SingleRootDescendantsKeepOffset ==
    [][ LayoutPass =>
          /\ \A n \in ConnectedNodes : pos'[n].x = pos[n].x
          /\ \A d \in Nodes : \A r \in RootsAbove(d) :
                 RootsAbove(d) = {r} =>
                     pos'[d].y - pos'[r].y = pos[d].y - pos[r].y ]_vars

\* C30 witness: a layout pass over 1 -> 3, 2 -> 3, 2 -> 4: the roots 1 and 2
\* are level, node 4, which descends from root 2 alone, is one level below
\* it, and node 3 has moved with root 2, the later of its two roots.
C30_Witness ==
    /\ LayoutDone
    /\ edges = <<<<1, 3>>, <<2, 3>>, <<2, 4>>>>
    /\ pos[1].y = pos[2].y
    /\ pos[4].y = pos[2].y + Px(LEVEL_SEPARATION)
    /\ pos[3].y = pos[2].y + Px(LEVEL_SEPARATION)

(***************************************************************************)
(* Free-node grid properties                                               *)
(***************************************************************************)
\* The grid has been calculated for at least one node.
GridDone == grid # Null /\ grid.result # Null /\ grid.nodeCount >= 1

WheelHandled == viewHist'.kind = "wheel" /\ viewHist'.outcome = "handled"

\* The view is at the minimum-Y limit of its scale (part_000 123-125).
AtTopLimit ==
    LET m == getMinViewY(viewHost.givesMinY, view.scale, container.height)
    IN  m # <<>> /\ Abs(view.y - m[1]) < Px(1)

\* The canvas y shown at the top edge of the viewport, for a view y and scale
\* (a view y of -Infinity shows -Infinity there).
TopEdgeY(y, scale) == AddTo(y, 0 - (container.height * ScaleOne) \div scale)

\* C32: a zoom that starts with the view at the minimum-Y limit ends with the
\* view at the minimum-Y limit of the new scale, and a zoom that starts
\* anywhere else leaves the canvas y at the top edge of the viewport unchanged.
C32_ZoomKeepsLimitOrTopEdge ==
    [][WheelHandled =>
          IF AtTopLimit
          THEN <<view'.y>> = getMinViewY(viewHost.givesMinY, view'.scale,
                                         container.height)
          ELSE TopEdgeY(view'.y, view'.scale) = TopEdgeY(view.y, view.scale)]_vars


\* The view is not above the minimum-Y limit of its scale.
WithinLimit ==
    LET m == getMinViewY(viewHost.givesMinY, view.scale, container.height)
    IN  m = <<>> \/ view.y >= m[1]

\* C32, amended: a zoom that starts at the minimum-Y limit ends at the limit
\* of the new scale; a zoom that starts anywhere else leaves the canvas y at
\* the top edge of the viewport unchanged unless that would put the view
\* above the limit of the new scale, and then the view ends at that limit,
\* with the top edge further down.
C32_ZoomKeepsLimitOrTopEdgeUnlessClamped ==
    [][WheelHandled =>
          /\ WithinLimit'
          /\ IF AtTopLimit
             THEN <<view'.y>> = getMinViewY(viewHost.givesMinY, view'.scale,
                                            container.height)
             ELSE \/ TopEdgeY(view'.y, view'.scale) = TopEdgeY(view.y, view.scale)
                  \/ /\ <<view'.y>> = getMinViewY(viewHost.givesMinY, view'.scale,
                                                  container.height)
                     /\ TopEdgeY(view'.y, view'.scale) > TopEdgeY(view.y, view.scale)]_vars

\* A handled zoom has left the view strictly below a limit the host gives:
\* it started away from the limit and kept its top edge.
C32_Witness ==
    /\ viewHist.kind = "wheel" /\ viewHist.outcome = "handled"
    /\ viewHost.givesMinY
    /\ ~AtTopLimit /\ WithinLimit


(***************************************************************************)
(* Resize properties                                                       *)
(***************************************************************************)

\* A resize notification was delivered in this step; container' is its size.
ResizeDelivered == viewHist'.kind = "resize" /\ viewHist'.events = viewHist.events + 1

\* C33: a resize notification with zero width or zero height, or with the
\* size of the previously handled one, changes nothing: the view position,
\* the scale and the remembered container size stay, and no redraw is asked.
C33_EmptyOrRepeatedResizeChangesNothing ==
    [][(/\ ResizeDelivered
        /\ \/ container'.width = 0
           \/ container'.height = 0
           \/ /\ container'.width = viewRefs.previousWidth
              /\ container'.height = viewRefs.previousHeight)
       => /\ view' = view
          /\ viewRefs' = viewRefs
          /\ viewHost' = viewHost
          /\ ~viewHist'.redrawn]_vars

\* A zero-width notification has been delivered after a handled resize to
\* another size.
C33_Witness ==
    /\ viewHist.kind = "resize"
    /\ container.width = 0
    /\ viewRefs.previousWidth = 175
    /\ ~viewHist.redrawn


(***************************************************************************)
(* Session lifetime properties                                             *)
(***************************************************************************)

\* This step delivered a drag event of this kind that its handler acted on.
Handled(kind) == ev'.kind = kind /\ ev'.outcome = "handled"

\* C34: a drag session exists exactly between a drag-start and its matching
\* drag-end: only an accepted drag-start creates a session, and it always
\* does; the drag-end for the session's node, whichever branch it takes,
\* leaves no session; and nothing else creates or ends one.
C34_SessionFromStartToMatchingEnd ==
    [][/\ Handled("dragStart") =>
              dragState' # Null /\ dragState'.subtree.rootId = ev'.node
       /\ Handled("dragEnd") =>
              /\ dragState # Null /\ dragState.subtree.rootId = ev'.node
              /\ dragState' = Null
       /\ dragState # Null =>
              handleDragEnd(World, <<dragState.subtree.rootId>>).w.dragState = Null
       /\ (dragState = Null /\ dragState' # Null) => Handled("dragStart")
       /\ (dragState # Null /\ dragState' = Null) => Handled("dragEnd")]_vars

\* A drop of a detached node on empty canvas, which commits nothing, has
\* ended the session.
C34_Witness ==
    /\ ev.kind = "dragEnd" /\ ev.outcome = "handled"
    /\ dragState = Null
    /\ detached # <<>>
    /\ ~isRoot[ev.node]
    /\ \A i \in 1..Len(edges) : edges[i][2] # ev.node


\* C35: resizing never changes the scale: in every reachable state, also
\* after the initial view positioning has chosen a fit-to-width scale, the
\* view scale just after a handled resize equals the view scale just before.
C35_ResizeNeverChangesScale ==
    [][(viewHist'.kind = "resize" /\ viewHist'.outcome = "handled")
          => view'.scale = view.scale]_vars


(***************************************************************************)
(* Descendant walk properties                                              *)
(***************************************************************************)

\* The nodes reachable from n form a tree rooted at n: no edge leads back to
\* n, and every reachable node is the target of exactly one edge that starts
\* at n or at a reachable node.
ReachableFormTree(es, n) ==
    LET reach == Descendants(EdgeSetOf(es), n)
    IN  /\ n \notin reach
        /\ \A m \in reach :
               Cardinality({i \in 1..Len(es) :
                               es[i][2] = m /\ es[i][1] \in reach \cup {n}}) = 1

\* A capture of a subtree is in progress or over.
Capturing == walk # Null /\ walk.alg = "capture"

\* C36: capturing a subtree terminates on every finite edge set (the loop
\* runs at most once per id of the input); it returns each descendant
\* exactly once when the nodes reachable from the dragged node form a tree,
\* and it fails with an error exactly when they do not, that is, when an id
\* already visited is reached again.
C36_CaptureTerminates ==
    Capturing =>
        LET reach == Descendants(EdgeSetOf(walk.es), walk.nodeId)
            tree == ReachableFormTree(walk.es, walk.nodeId)
        IN  /\ walk.iterations <= Cardinality(reach \cup {walk.nodeId})
            /\ walk.status = "running" => walk.queue # <<>>
            /\ walk.status = "returned" =>
                   /\ tree
                   /\ SeqRange(walk.descendants) = reach
                   /\ Len(walk.descendants) = Cardinality(reach)
            /\ walk.status = "threw" => ~tree

\* A capture over a two-level chain has returned its two descendants.
C36_Witness ==
    /\ Capturing
    /\ walk.status = "returned"
    /\ walk.es = <<<<1, 2>>, <<2, 3>>>>
    /\ walk.nodeId = 1
    /\ walk.descendants = <<2, 3>>


(***************************************************************************)
(* Idle-state properties                                                   *)
(***************************************************************************)

\* With no session in a world, no node is highlighted and the root band is
\* not lit.
NoHighlightWhenIdle(w) ==
    w.dragState = Null => (HighlightedIn(w) = {} /\ ~w.topBarLit)

\* C37: whenever no drag session is active, no node carries the drop-target
\* highlight colour and the root-band highlight is off, after any sequence
\* of drag-start, drag-move and drag-end events: in every state, and after
\* every drag-start followed by the drag-end for its node.
C37_NoHighlightWithoutSession ==
    /\ NoHighlightWhenIdle(World)
    /\ \A n \in Nodes :
           LET started == handleDragStart(World, <<n>>).w
           IN  NoHighlightWhenIdle(handleDragEnd(started, <<n>>).w)



\* Node n has a child, no incoming edge and no root flag.
UndeclaredTop(roots, es, n) ==
    /\ \E i \in 1..Len(es) : es[i][1] = n
    /\ \A i \in 1..Len(es) : es[i][2] # n
    /\ ~roots[n]

\* C38: whenever no drag session is active, every node that has at least one
\* child and no incoming edge is a declared root; a parentless, non-root
\* node with children exists only inside a gesture.
C38_IdleTopsAreDeclaredRoots ==
    dragState = Null => \A n \in Nodes : ~UndeclaredTop(isRoot, edges, n)

\* C38, amended: a step that ends with no session makes no node with a child
\* and no incoming edge an undeclared one, and the drag-end leaves the node
\* it is for undeclared only when the drop commits nothing: the node was
\* detached, the root band is not armed and no drop target is highlighted.
C38_IdleTopsDeclaredUnlessDroppedUncommitted ==
    [][dragState' = Null =>
          \A n \in Nodes :
              UndeclaredTop(isRoot', edges', n) =>
                  /\ UndeclaredTop(isRoot, edges, n)
                  /\ (dragState # Null /\ n = dragState.subtree.rootId) =>
                         /\ dragState.snappedOut
                         /\ ~dragState.isOverTopBar
                         /\ dragState.highlightedNodeId = NoNode]_vars

\* The root with its two children was pulled out of the hierarchy, which
\* cleared its flag, and dropped on the armed root band, which set it again.
C38_Witness ==
    /\ ev.kind = "dragEnd" /\ ev.outcome = "handled"
    /\ ev.node = 1
    /\ dragState = Null
    /\ mutations = 2
    /\ isRoot[1]
    /\ edges = <<<<1, 2>>, <<1, 3>>>>


\* C39: the layout calculation terminates for every finite set of nodes and
\* edges, an edge set with a cycle reachable from a root included: the walk
\* from a root pops one node per path that starts at the root, and an edge
\* list of k edges without a reachable cycle has at most 2^k such paths, so
\* a walk that terminates never makes more than 2^k iterations.
C39_LayoutWalkTerminates ==
    (walk # Null /\ walk.alg = "layout") =>
        walk.iterations <= 2 ^ Len(walk.es)

(***************************************************************************)
(* Specifications                                                          *)
(***************************************************************************)
\* The view of a run without view events: scale 1, a host that gives a minY.
Init ==
    ValInit /\ DragInit /\ ViewInitWith(ScaleOne, TRUE) /\ StateInit /\ CalcInit

ValNext == ValAddEdge \/ ValRun

Next == DragStartEv \/ DragMoveEv \/ DragEndEv

\* The drag state machine under every sequence of drag events.
Spec == Init /\ [][Next]_vars

\* The validator applied to every edge list within the bounds.
SpecValidate == Init /\ [][ValNext]_vars

ArrangeNext == Next \/ ArrangeEv

\* The drag state machine with layout passes between the gestures.
SpecArrange == Init /\ [][ArrangeNext]_vars

ViewStart == ValInit /\ DragInit /\ ViewInit /\ StateInit /\ CalcInit

ViewNext ==
    \/ MouseDownEv \/ MouseMoveEv \/ MouseUpEv \/ MouseLeaveEv
    \/ WheelEv \/ ResizeEv \/ PositionViewEv

\* The view under every sequence of pan, wheel, resize and positioning events.
SpecView == ViewStart /\ [][ViewNext]_vars

StateNext == StateAddNode \/ StateAddEdge \/ StateExtract

\* extractGraphState applied to every pair of datasets within the bounds.
SpecState == Init /\ [][StateNext]_vars

LayoutStart ==
    ValInit /\ LayoutInit /\ ViewInitWith(ScaleOne, TRUE) /\ StateInit /\ CalcInit

LayoutNext == ArrangeEv

\* The layout pass applied to every layout input within the bounds.
SpecLayout == LayoutStart /\ [][LayoutNext]_vars

DagLayoutStart ==
    /\ ValInit /\ DagLayoutInit /\ ViewInitWith(ScaleOne, TRUE) /\ StateInit
    /\ CalcInit

\* The layout pass applied to every acyclic layout input within the bounds.
SpecLayoutDag == DagLayoutStart /\ [][LayoutNext]_vars

GridStart ==
    /\ ValInit /\ DragInit /\ ViewInitWith(ScaleOne, TRUE) /\ StateInit
    /\ GridInit

GridNext == GridCalc

\* calculateFreeNodesGrid applied to every node count within the bound.
SpecGrid == GridStart /\ [][GridNext]_vars

\* The drag machine beside a collaborator that re-lays nodes out.
CaptureStart ==
    ValInit /\ DragInit /\ ViewInitWith(ScaleOne, TRUE) /\ StateInit /\ CaptureInit
CaptureNext == CaptureStep
SpecCapture == CaptureStart /\ [][CaptureNext]_vars

LayoutWalkStart ==
    ValInit /\ DragInit /\ ViewInitWith(ScaleOne, TRUE) /\ StateInit /\ LayoutWalkInit
LayoutWalkNext == LayoutRootStep \/ LayoutWalkStep
SpecLayoutWalk == LayoutWalkStart /\ [][LayoutWalkNext]_vars

RelayoutNext == Next \/ RelayoutEv

SpecRelayout == Init /\ [][RelayoutNext]_vars

====
